---- MODULE Spec2Model ----
(***************************************************************************)
(* Copilot Chat Extractor: the extraction and normalisation pipeline of    *)
(* src/src/chatExtractor.ts (content extraction, message parsing, session  *)
(* building, database extraction, aggregation and search).                 *)
(*                                                                         *)
(* JSON values are records with one shape,                                 *)
(*   [t: type tag, b: boolean, n: number, s: string, a: array, o: object], *)
(* a string is a sequence of one-character strings, an object is the       *)
(* ordered sequence of its [k, v] entries (keys distinct).                 *)
(***************************************************************************)
EXTENDS Integers, Sequences, FiniteSets, TLC

(***************************************************************************)
(* Bounds of the model.                                                    *)
(***************************************************************************)
MaxArrLen == 2
MaxItems == 2
MaxWorkspaces == 2
MaxFiles == 1
MaxRows == 1
MaxTime == 2

\* the clock readings (Date.now(), mtimeMs) lie above every list index
TimeBase == 100
Clock == {TimeBase + t : t \in 1..MaxTime}
MaxSearchSessions == 3

(***************************************************************************)
(* JSON / JavaScript values.                                               *)
(***************************************************************************)
JV(t, b, n, s, a, o) == [t |-> t, b |-> b, n |-> n, s |-> s, a |-> a, o |-> o]
JUndef == JV("undefined", FALSE, 0, <<>>, <<>>, <<>>)
JNull == JV("null", FALSE, 0, <<>>, <<>>, <<>>)
JBool(b) == JV("boolean", b, 0, <<>>, <<>>, <<>>)
JNum(n) == JV("number", FALSE, n, <<>>, <<>>, <<>>)
JStr(s) == JV("string", FALSE, 0, s, <<>>, <<>>)
JArr(a) == JV("array", FALSE, 0, <<>>, a, <<>>)
JObj(o) == JV("object", FALSE, 0, <<>>, <<>>, o)
KV(k, v) == [k |-> k, v |-> v]

EmptyStr == JStr(<<>>)
NL == "\n"

\* JavaScript truthiness: undefined, null, false, 0 and "" are falsy.
Truthy(v) ==
    CASE v.t = "undefined" -> FALSE
      [] v.t = "null" -> FALSE
      [] v.t = "boolean" -> v.b
      [] v.t = "number" -> v.n # 0
      [] v.t = "string" -> v.s # <<>>
      [] OTHER -> TRUE

\* typeof v === 'object' (true of null and of arrays)
TypeofObject(v) == v.t \in {"null", "array", "object"}

\* v[k] for a v that is neither null nor undefined
Get(v, k) ==
    IF v.t = "object" /\ \E i \in 1..Len(v.o) : v.o[i].k = k
    THEN v.o[CHOOSE i \in 1..Len(v.o) : v.o[i].k = k].v
    ELSE JUndef

\* a || b || ... over a non-empty list of already evaluated operands
RECURSIVE OrChain(_)
OrChain(vs) ==
    IF Len(vs) = 1 \/ Truthy(Head(vs)) THEN Head(vs) ELSE OrChain(Tail(vs))

RECURSIVE Digits(_)
Digits(n) ==
    IF n < 10
    THEN <<SubSeq(<<"0", "1", "2", "3", "4", "5", "6", "7", "8", "9">>, n + 1, n + 1)[1]>>
    ELSE Digits(n \div 10) \o Digits(n % 10)

RECURSIVE JoinStr(_, _)
JoinStr(strs, sep) ==
    IF strs = <<>> THEN <<>>
    ELSE IF Len(strs) = 1 THEN strs[1]
    ELSE strs[1] \o sep \o JoinStr(Tail(strs), sep)

\* String(v), as Array.prototype.join applies it to an element
RECURSIVE ToStr(_)
ToStr(v) ==
    CASE v.t = "string" -> v.s
      [] v.t = "number" -> Digits(v.n)
      [] v.t = "boolean" -> IF v.b THEN <<"t", "r", "u", "e">> ELSE <<"f", "a", "l", "s", "e">>
      [] v.t = "array" -> JoinStr([i \in 1..Len(v.a) |-> ToStr(v.a[i])], <<",">>)
      [] v.t = "object" -> <<"[", "o", "b", "j", "e", "c", "t", " ", "O", "b", "j", "e", "c", "t", "]">>
      [] OTHER -> <<>>

RECURSIVE FilterTruthy(_)
FilterTruthy(vs) ==
    IF vs = <<>> THEN <<>>
    ELSE IF Truthy(Head(vs)) THEN <<Head(vs)>> \o FilterTruthy(Tail(vs))
    ELSE FilterTruthy(Tail(vs))

\* vs.filter(Boolean).join('\n')
FilterJoin(vs) ==
    LET kept == FilterTruthy(vs)
    IN JStr(JoinStr([i \in 1..Len(kept) |-> ToStr(kept[i])], <<NL>>))

(***************************************************************************)
(* Results of a call: a value, or a raised TypeError.                      *)
(***************************************************************************)
Ok(v) == [raised |-> FALSE, val |-> v]
Raise == [raised |-> TRUE, val |-> JUndef]

(***************************************************************************)
(* extractContent                                                          *)
(***************************************************************************)
\* the callback of data.map in extractContent
ExtractItem(item) ==
    IF item.t = "string" THEN Ok(item)
    ELSE IF TypeofObject(item)
    THEN IF item.t = "null" THEN Raise
         ELSE Ok(OrChain(<<Get(item, "text"), Get(item, "value"), Get(item, "content"), EmptyStr>>))
    ELSE Ok(EmptyStr)

\* the outcome of array.map(callback): the mapped values, or a raise
MapNone == [raised |-> FALSE, vals |-> <<>>]
MapCons(h, t) == [raised |-> h.raised \/ t.raised, vals |-> <<h.val>> \o t.vals]

\* map(...).filter(Boolean).join('\n')
JoinMapped(m) == IF m.raised THEN Raise ELSE Ok(FilterJoin(m.vals))

RECURSIVE MapExtractItem(_)
MapExtractItem(items) ==
    IF items = <<>> THEN MapNone
    ELSE MapCons(ExtractItem(Head(items)), MapExtractItem(Tail(items)))

extractContent(data) ==
    IF ~Truthy(data) THEN Ok(EmptyStr)
    ELSE IF data.t = "string" THEN Ok(data)
    ELSE IF data.t = "array" THEN JoinMapped(MapExtractItem(data.a))
    ELSE IF TypeofObject(data)
    THEN Ok(OrChain(<<Get(data, "text"), Get(data, "value"), Get(data, "content"),
                      Get(data, "message"), EmptyStr>>))
    ELSE Ok(EmptyStr)

(***************************************************************************)
(* parseMessage                                                            *)
(***************************************************************************)
Msg(role, content, timestamp, toolCalls, toolResults, rawData) ==
    [role |-> role, content |-> content, timestamp |-> timestamp,
     toolCalls |-> toolCalls, toolResults |-> toolResults, rawData |-> rawData]

S_user == <<"u", "s", "e", "r">>
S_human == <<"h", "u", "m", "a", "n">>
S_User == <<"U", "s", "e", "r">>
S_assistant == <<"a", "s", "s", "i", "s", "t", "a", "n", "t">>
S_bot == <<"b", "o", "t">>
S_copilot == <<"c", "o", "p", "i", "l", "o", "t">>
S_Assistant == <<"A", "s", "s", "i", "s", "t", "a", "n", "t">>
S_ai == <<"a", "i">>
S_system == <<"s", "y", "s", "t", "e", "m">>

\* variant: only the three role names themselves are recognised
RoleOfNoAlias(roleValue) ==
    IF roleValue.t = "string" /\ roleValue.s = S_user THEN "user"
    ELSE IF roleValue.t = "string" /\ roleValue.s = S_assistant THEN "assistant"
    ELSE IF roleValue.t = "string" /\ roleValue.s = S_system THEN "system"
    ELSE "unknown"

\* lines 173-180
RoleOf(roleValue) ==
    IF roleValue.t = "string" /\ roleValue.s \in {S_user, S_human, S_User} THEN "user"
    ELSE IF roleValue.t = "string"
            /\ roleValue.s \in {S_assistant, S_bot, S_copilot, S_Assistant, S_ai} THEN "assistant"
    ELSE IF roleValue.t = "string" /\ roleValue.s = S_system THEN "system"
    ELSE "unknown"

\* extractContent(a) || extractContent(b) || ... : later operands are not
\* evaluated once one is truthy, so only an evaluated operand can raise
RECURSIVE ContentChain(_)

\* r: the outcome of extractContent for the first operand of vs
ContentChainFrom(r, vs) ==
    IF r.raised THEN Raise
    ELSE IF Len(vs) = 1 \/ Truthy(r.val) THEN r
    ELSE ContentChain(Tail(vs))

ContentChain(vs) == ContentChainFrom(extractContent(Head(vs)), vs)

NoMsg == Msg("unknown", JUndef, JUndef, JUndef, JUndef, JUndef)
MsgOk(m) == [raised |-> FALSE, isNull |-> FALSE, msg |-> m]
MsgNull == [raised |-> FALSE, isNull |-> TRUE, msg |-> NoMsg]
MsgRaise == [raised |-> TRUE, isNull |-> FALSE, msg |-> NoMsg]

\* variant: the test of line 188 is missing
MessageOfKeepAll(data, role, c) ==
    IF c.raised THEN MsgRaise
    ELSE MsgOk(Msg(role, c.val,
                   OrChain(<<Get(data, "timestamp"), Get(data, "date")>>),
                   Get(data, "toolCalls"), Get(data, "toolResults"), data))

\* lines 188-197, with the role and the content of lines 173-186
MessageOf(data, role, c) ==
    IF c.raised THEN MsgRaise
    ELSE IF ~Truthy(c.val) /\ role = "unknown" THEN MsgNull
    ELSE MsgOk(Msg(role, c.val,
                   OrChain(<<Get(data, "timestamp"), Get(data, "date")>>),
                   Get(data, "toolCalls"), Get(data, "toolResults"), data))

parseMessage(data) ==
    IF ~Truthy(data) \/ ~TypeofObject(data) THEN MsgNull
    ELSE MessageOf(data,
                   RoleOf(OrChain(<<Get(data, "role"), Get(data, "type"), Get(data, "kind"), EmptyStr>>)),
                   ContentChain(<<Get(data, "content"), Get(data, "text"),
                                  Get(data, "value"), Get(data, "message")>>))

(***************************************************************************)
(* parseMessages                                                           *)
(***************************************************************************)
messageContainers == <<"messages", "history", "exchanges", "requests", "turns", "chatMessages">>

MsgsOk(ms) == [raised |-> FALSE, msgs |-> ms]
MsgsRaise == [raised |-> TRUE, msgs |-> <<>>]

\* variant: the messages of y come first
ConcatReversed(x, y) == IF x.raised \/ y.raised THEN MsgsRaise ELSE MsgsOk(y.msgs \o x.msgs)

\* the messages of x followed by those of y, unless one of them raised
Concat(x, y) == IF x.raised \/ y.raised THEN MsgsRaise ELSE MsgsOk(x.msgs \o y.msgs)

\* lines 221-227 and 244-250: the message pushed for a non-empty content c
Pushed(role, c, from) ==
    IF c.raised THEN MsgsRaise
    ELSE IF Truthy(c.val)
    THEN MsgsOk(<<Msg(role, c.val, Get(from, "timestamp"), JUndef, JUndef, JUndef)>>)
    ELSE MsgsOk(<<>>)

\* lines 216-227
RequestOf(request) ==
    IF ~Truthy(request) THEN MsgsOk(<<>>)
    ELSE Pushed("user", IF request.t = "string" THEN Ok(request) ELSE extractContent(request),
                request)

\* the request/message side of one container element
RequestPart(item) == RequestOf(OrChain(<<Get(item, "request"), Get(item, "message")>>))

\* the callback of response.map
ResponseElem(r) == IF r.t = "string" THEN Ok(r) ELSE extractContent(r)

RECURSIVE MapResponseElem(_)
MapResponseElem(items) ==
    IF items = <<>> THEN MapNone
    ELSE MapCons(ResponseElem(Head(items)), MapResponseElem(Tail(items)))

\* lines 231-250
ResponseOf(response) ==
    IF ~Truthy(response) THEN MsgsOk(<<>>)
    ELSE Pushed("assistant",
                IF response.t = "string" THEN Ok(response)
                ELSE IF response.t = "array" THEN JoinMapped(MapResponseElem(response.a))
                ELSE extractContent(response),
                response)

\* the response/result side of one container element
ResponsePart(item) == ResponseOf(OrChain(<<Get(item, "response"), Get(item, "result")>>))

\* variant: the content of the message is not tested
StandardMessageAnyContent(m) ==
    IF m.raised THEN MsgsRaise
    ELSE IF ~m.isNull THEN MsgsOk(<<m.msg>>)
    ELSE MsgsOk(<<>>)

\* lines 256-258
StandardMessage(m) ==
    IF m.raised THEN MsgsRaise
    ELSE IF ~m.isNull /\ Truthy(m.msg.content) THEN MsgsOk(<<m.msg>>)
    ELSE MsgsOk(<<>>)

\* the standard message format of one container element
StandardPart(item) ==
    IF Truthy(Get(item, "request")) \/ Truthy(Get(item, "response"))
       \/ Truthy(Get(item, "message")) \/ Truthy(Get(item, "result"))
    THEN MsgsOk(<<>>)
    ELSE StandardMessage(parseMessage(item))

\* the body of the loop over one container's elements
ParseItem(item) ==
    IF ~Truthy(item) \/ ~TypeofObject(item) THEN MsgsOk(<<>>)
    ELSE Concat(RequestPart(item), Concat(ResponsePart(item), StandardPart(item)))

RECURSIVE ParseItems(_)
ParseItems(items) ==
    IF items = <<>> THEN MsgsOk(<<>>)
    ELSE Concat(ParseItem(Head(items)), ParseItems(Tail(items)))

\* the loop over the container keys, from the key at index k on
RECURSIVE ParseContainers(_, _)

\* line 262: r is what the container at index k yielded
\* variant: the later containers are read as well and their messages appended
AfterContainerMerge(data, k, r) ==
    IF r.raised THEN MsgsRaise
    ELSE Concat(r, ParseContainers(data, k + 1))

AfterContainer(data, k, r) ==
    IF r.raised THEN MsgsRaise
    ELSE IF Len(r.msgs) > 0 THEN r
    ELSE ParseContainers(data, k + 1)

\* line 210: c is data[key]
Container(data, k, c) ==
    IF Truthy(c) /\ c.t = "array" THEN AfterContainer(data, k, ParseItems(c.a))
    ELSE ParseContainers(data, k + 1)

ParseContainers(data, k) ==
    IF k > Len(messageContainers) THEN MsgsOk(<<>>)
    ELSE Container(data, k, Get(data, messageContainers[k]))

parseMessages(data) ==
    IF data.t \in {"null", "undefined"} THEN MsgsRaise
    ELSE ParseContainers(data, 1)

(***************************************************************************)
(* Session building: parseSessionFromFile, createSessionFromData,          *)
(* processDbEntry.                                                         *)
(***************************************************************************)
TitleMax == 60
IdPrefixLen == 8

S_Chat == <<"C", "h", "a", "t", " ">>
S_Workspace == <<"W", "o", "r", "k", "s", "p", "a", "c", "e", " ">>
S_dots == <<".", ".", ".">>
S_json == <<".", "j", "s", "o", "n">>
S_db == <<"d", "b", "_">>

\* s.substring(0, n)
Prefix(s, n) == SubSeq(s, 1, IF Len(s) < n THEN Len(s) ELSE n)

EndsWith(s, suffix) ==
    Len(suffix) <= Len(s) /\ SubSeq(s, Len(s) - Len(suffix) + 1, Len(s)) = suffix

\* path.basename(filePath, ext), filePath given by its last component: a
\* component that is the extension and nothing else is kept whole
Basename(name, ext) ==
    IF EndsWith(name, ext) /\ name # ext THEN SubSeq(name, 1, Len(name) - Len(ext)) ELSE name

WorkspaceInfo(workspaceId, projectPath, projectName, chatSessionFiles, hasStateDb) ==
    [workspaceId |-> workspaceId, projectPath |-> projectPath, projectName |-> projectName,
     chatSessionFiles |-> chatSessionFiles, hasStateDb |-> hasStateDb]

\* workspace.projectName || `Workspace ${workspace.workspaceId.substring(0, 8)}...`
WorkspaceName(workspace) ==
    IF Truthy(workspace.projectName) THEN workspace.projectName
    ELSE JStr(S_Workspace \o Prefix(workspace.workspaceId, IdPrefixLen) \o S_dots)

\* the index of messages.find(m => m.role === 'user'), 0 when there is none
FirstUser(messages) ==
    IF \E i \in 1..Len(messages) : messages[i].role = "user"
    THEN CHOOSE i \in 1..Len(messages) :
            /\ messages[i].role = "user"
            /\ \A j \in 1..(i - 1) : messages[j].role # "user"
    ELSE 0

\* lines 284-285 and 392-393: the title cut from the content c of the first
\* user message; raises when c has no substring method (is not a string)
\* variant: the dots are added from 60 characters on
TitleFromDotsAtMax(c) ==
    IF c.t # "string" THEN Raise
    ELSE Ok(JStr(Prefix(c.s, TitleMax) \o (IF Len(c.s) >= TitleMax THEN S_dots ELSE <<>>)))

TitleFrom(c) ==
    IF c.t # "string" THEN Raise
    ELSE Ok(JStr(Prefix(c.s, TitleMax) \o (IF Len(c.s) > TitleMax THEN S_dots ELSE <<>>)))

\* the title after the derivation from the first user message
DerivedTitle(explicit, messages) ==
    IF ~Truthy(explicit) /\ Len(messages) > 0 /\ FirstUser(messages) # 0
    THEN TitleFrom(messages[FirstUser(messages)].content)
    ELSE Ok(explicit)

SessOk(x) == [raised |-> FALSE, session |-> x]
FileOk(x) == [isNull |-> FALSE, session |-> x]

NoSession ==
    [sessionId |-> JUndef, title |-> JUndef, messages |-> <<>>, workspaceId |-> <<>>,
     workspaceName |-> JUndef, projectPath |-> JUndef, createdAt |-> JUndef, modifiedAt |-> 0,
     model |-> JUndef, agentMode |-> JUndef, source |-> "none", filePath |-> <<>>]

\* createSessionFromData raises
SessRaise == [raised |-> TRUE, session |-> NoSession]

\* parseSessionFromFile returns null (its catch block)
FileNull == [isNull |-> TRUE, session |-> NoSession]

\* lines 280-310: the session built from a parsed file
FileSession(file, workspace, messages, title) ==
    [sessionId |-> JStr(Basename(file.name, S_json)),
     title |-> OrChain(<<title,
                         JStr(S_Chat \o Prefix(Basename(file.name, S_json), IdPrefixLen) \o S_dots)>>),
     messages |-> messages,
     workspaceId |-> workspace.workspaceId,
     workspaceName |-> WorkspaceName(workspace),
     projectPath |-> workspace.projectPath,
     createdAt |-> OrChain(<<Get(file.data, "createdAt"), Get(file.data, "created"),
                             Get(file.data, "timestamp"), Get(file.data, "creationDate")>>),
     modifiedAt |-> file.mtime,
     model |-> OrChain(<<Get(file.data, "model"), Get(file.data, "languageModel"),
                         Get(file.data, "modelId")>>),
     agentMode |-> OrChain(<<Get(file.data, "agentMode"), Get(file.data, "mode"),
                             Get(file.data, "agent")>>),
     source |-> "json",
     filePath |-> file.name]

\* variant: a title that cannot be derived is left out instead of raising
TitledNoRaise(file, workspace, messages, dt) ==
    FileOk(FileSession(file, workspace, messages, IF dt.raised THEN JUndef ELSE dt.val))

\* dt: the outcome of the title derivation; a raise ends in the catch block
Titled(file, workspace, messages, dt) ==
    IF dt.raised THEN FileNull
    ELSE FileOk(FileSession(file, workspace, messages, dt.val))

\* pm: the outcome of parseMessages(data)
Parsed(file, workspace, pm) ==
    IF pm.raised THEN FileNull
    ELSE Titled(file, workspace, pm.msgs,
                DerivedTitle(OrChain(<<Get(file.data, "title"), Get(file.data, "name"),
                                       Get(file.data, "sessionTitle"),
                                       Get(file.data, "customTitle")>>),
                             pm.msgs))

\* file: [name, kind in {"unreadable", "invalid", "json"}, data, mtime]
parseSessionFromFile(file, workspace) ==
    IF file.kind # "json" THEN FileNull
    ELSE Parsed(file, workspace, parseMessages(file.data))

\* variant: the identifier of the record is not looked at
DbSessionFallbackId(data, messages, workspace, sessionId, now, dt) ==
    IF dt.raised THEN SessRaise
    ELSE SessOk(
      [sessionId |-> JStr(sessionId),
       title |-> OrChain(<<dt.val, JStr(S_Chat \o Prefix(sessionId, IdPrefixLen) \o S_dots)>>),
       messages |-> messages,
       workspaceId |-> workspace.workspaceId,
       workspaceName |-> WorkspaceName(workspace),
       projectPath |-> workspace.projectPath,
       createdAt |-> OrChain(<<Get(data, "createdAt"), Get(data, "created")>>),
       modifiedAt |-> now,
       model |-> OrChain(<<Get(data, "model"), Get(data, "languageModel")>>),
       agentMode |-> OrChain(<<Get(data, "agentMode"), Get(data, "mode")>>),
       source |-> "sqlite",
       filePath |-> <<>>])

\* lines 397-409: dt is the outcome of the title derivation
DbSession(data, messages, workspace, sessionId, now, dt) ==
    IF dt.raised THEN SessRaise
    ELSE SessOk(
      [sessionId |-> OrChain(<<Get(data, "sessionId"), JStr(sessionId)>>),
       title |-> OrChain(<<dt.val, JStr(S_Chat \o Prefix(sessionId, IdPrefixLen) \o S_dots)>>),
       messages |-> messages,
       workspaceId |-> workspace.workspaceId,
       workspaceName |-> WorkspaceName(workspace),
       projectPath |-> workspace.projectPath,
       createdAt |-> OrChain(<<Get(data, "createdAt"), Get(data, "created")>>),
       modifiedAt |-> now,
       model |-> OrChain(<<Get(data, "model"), Get(data, "languageModel")>>),
       agentMode |-> OrChain(<<Get(data, "agentMode"), Get(data, "mode")>>),
       source |-> "sqlite",
       filePath |-> <<>>])

\* sessionId: the fallback identifier, a string; now: the value of Date.now()
createSessionFromData(data, messages, workspace, sessionId, now) ==
    DbSession(data, messages, workspace, sessionId, now,
              DerivedTitle(OrChain(<<Get(data, "title"), Get(data, "name"),
                                     Get(data, "sessionTitle")>>),
                           messages))

ListOk(ss) == [raised |-> FALSE, sessions |-> ss]
ListRaise(ss) == [raised |-> TRUE, sessions |-> ss]

\* sessions.push(c), c the outcome of createSessionFromData
PushSession(sessions, c) ==
    IF c.raised THEN ListRaise(sessions) ELSE ListOk(Append(sessions, c.session))

\* lines 360-363, 371-374, 379-382: pm is the outcome of parseMessages(cand)
Candidate(cand, workspace, sessions, sessionId, now, pm) ==
    IF pm.raised THEN ListRaise(sessions)
    ELSE IF Len(pm.msgs) > 0
    THEN PushSession(sessions, createSessionFromData(cand, pm.msgs, workspace, sessionId, now))
    ELSE ListOk(sessions)

\* one candidate (element of a list, entry of a sessions mapping, or the
\* whole value) inside processDbEntry: the sessions list after it
DbCandidate(cand, workspace, sessions, sessionId, now) ==
    Candidate(cand, workspace, sessions, sessionId, now, parseMessages(cand))

\* the candidates processDbEntry takes from data, in order, each with its
\* fallback identifier
Candidates(data, now) ==
    IF ~Truthy(data) THEN <<>>
    ELSE IF data.t = "array"
    THEN [i \in 1..Len(data.a) |-> [skip |-> ~TypeofObject(data.a[i]), cand |-> data.a[i],
                                    id |-> S_db \o Digits(i - 1)]]
    ELSE IF TypeofObject(data)
    THEN IF Truthy(Get(data, "sessions"))
         THEN IF Get(data, "sessions").t = "object"
              THEN [i \in 1..Len(Get(data, "sessions").o) |->
                       [skip |-> ~TypeofObject(Get(data, "sessions").o[i].v),
                        cand |-> Get(data, "sessions").o[i].v,
                        id |-> Get(data, "sessions").o[i].k]]
              ELSE <<>>
         ELSE <<[skip |-> FALSE, cand |-> data, id |-> S_db \o Digits(now)]>>
    ELSE <<>>

\* the loops of lines 357-383, from the candidate at index k on
RECURSIVE DbLoop(_, _, _, _, _)

\* r: the sessions list after the candidate at index k; a raise ends the loop
DbLoopNext(cands, k, workspace, now, r) ==
    IF r.raised THEN r ELSE DbLoop(cands, k + 1, workspace, r.sessions, now)

DbLoop(cands, k, workspace, sessions, now) ==
    IF k > Len(cands) THEN ListOk(sessions)
    ELSE IF cands[k].skip THEN DbLoop(cands, k + 1, workspace, sessions, now)
    ELSE DbLoopNext(cands, k, workspace, now,
                    DbCandidate(cands[k].cand, workspace, sessions, cands[k].id, now))

processDbEntry(data, workspace, sessions, now) ==
    DbLoop(Candidates(data, now), 1, workspace, sessions, now)

(***************************************************************************)
(* getAllSessions: deduplication and ordering.                             *)
(***************************************************************************)
\* seenIds.has(id): SameValueZero, so two parsed objects are never the same
SeenHas(seen, id) == id.t \in {"string", "number", "boolean"} /\ id \in seen

\* variant: the id is not looked up in seenIds
KeepFileSessionNoSeen(r, seen) ==
    ~r.isNull /\ Len(r.session.messages) > 0

\* variant: the message count is not tested
KeepFileSessionNoLen(r, seen) ==
    ~r.isNull /\ ~SeenHas(seen, r.session.sessionId)

\* the condition of line 424
KeepFileSession(r, seen) ==
    ~r.isNull /\ Len(r.session.messages) > 0 /\ ~SeenHas(seen, r.session.sessionId)

\* the loop of lines 432-437 over the sessions of one database
RECURSIVE MergeLoop(_, _, _)
MergeLoop(found, acc, seen) ==
    IF found = <<>> THEN [sessions |-> acc, seenIds |-> seen]
    ELSE IF ~SeenHas(seen, Head(found).sessionId)
    THEN MergeLoop(Tail(found), Append(acc, Head(found)), seen \cup {Head(found).sessionId})
    ELSE MergeLoop(Tail(found), acc, seen)

\* variant: oldest first
CompareAscending(a, b) == a.modifiedAt - b.modifiedAt

\* the comparator of line 441: negative when a sorts before b
Compare(a, b) == b.modifiedAt - a.modifiedAt

\* x placed behind every element that does not sort after it (stable)
RECURSIVE InsertStable(_, _)
InsertStable(sorted, x) ==
    IF sorted = <<>> THEN <<x>>
    ELSE IF Compare(x, Head(sorted)) < 0 THEN <<x>> \o sorted
    ELSE <<Head(sorted)>> \o InsertStable(Tail(sorted), x)

\* Array.prototype.sort with Compare (stable since ES2019)
RECURSIVE SortSessions(_)
SortSessions(list) ==
    IF list = <<>> THEN <<>>
    ELSE InsertStable(SortSessions(SubSeq(list, 1, Len(list) - 1)), list[Len(list)])

(***************************************************************************)
(* searchSessions                                                          *)
(***************************************************************************)
UpperChars == <<"A", "B", "C", "D", "E", "F", "G", "H", "I", "J", "K", "L", "M",
                "N", "O", "P", "Q", "R", "S", "T", "U", "V", "W", "X", "Y", "Z">>
LowerChars == <<"a", "b", "c", "d", "e", "f", "g", "h", "i", "j", "k", "l", "m",
                "n", "o", "p", "q", "r", "s", "t", "u", "v", "w", "x", "y", "z">>

LowerChar(c) ==
    IF \E i \in 1..Len(UpperChars) : UpperChars[i] = c
    THEN LowerChars[CHOOSE i \in 1..Len(UpperChars) : UpperChars[i] = c]
    ELSE c

\* s.toLowerCase()
ToLowerCase(s) == [i \in 1..Len(s) |-> LowerChar(s[i])]

\* s.includes(sub)
Includes(s, sub) ==
    \E i \in 1..(Len(s) - Len(sub) + 1) \cup {1} :
        i + Len(sub) - 1 <= Len(s) /\ SubSeq(s, i, i + Len(sub) - 1) = sub

\* lines 461-463: the matches of one message followed by those of the rest
Matched(message, lowerQuery, rest) ==
    IF rest.raised THEN MsgsRaise
    ELSE IF Includes(ToLowerCase(message.content.s), lowerQuery)
    THEN MsgsOk(<<message>> \o rest.msgs)
    ELSE rest

\* the loop of lines 460-464 over one session's messages
RECURSIVE MatchLoop(_, _)
MatchLoop(messages, lowerQuery) ==
    IF messages = <<>> THEN MsgsOk(<<>>)
    ELSE IF Head(messages).content.t # "string" THEN MsgsRaise
    ELSE Matched(Head(messages), lowerQuery, MatchLoop(Tail(messages), lowerQuery))

\* variant: results.unshift
PushFront(results, r) == <<r>> \o results

\* results.push({ session, matches })
PushResult(results, r) == Append(results, r)

\* variant: the title is not searched
SearchedNoTitle(results, session, titleMatch, m) ==
    IF m.raised THEN [raised |-> TRUE, results |-> results]
    ELSE IF Len(m.msgs) > 0
    THEN [raised |-> FALSE,
          results |-> PushResult(results, [session |-> session, matches |-> m.msgs])]
    ELSE [raised |-> FALSE, results |-> results]

\* lines 466-468: m is the outcome of the loop over the messages
Searched(results, session, titleMatch, m) ==
    IF m.raised THEN [raised |-> TRUE, results |-> results]
    ELSE IF titleMatch \/ Len(m.msgs) > 0
    THEN [raised |-> FALSE,
          results |-> PushResult(results, [session |-> session, matches |-> m.msgs])]
    ELSE [raised |-> FALSE, results |-> results]

\* the body of the loop of line 453 for one session: the results after it
SearchOne(results, session, q) ==
    IF session.title.t # "string" THEN [raised |-> TRUE, results |-> results]
    ELSE Searched(results, session,
                  Includes(ToLowerCase(session.title.s), ToLowerCase(q)),
                  MatchLoop(session.messages, ToLowerCase(q)))

(***************************************************************************)
(* State.                                                                  *)
(***************************************************************************)
VARIABLES
    pc,             \* position in getAllSessions / extractSessionsFromSqlite
    wcount,         \* workspaces of discoverWorkspaces() the loop has taken
    workspace,      \* the loop variable of line 420
    fi,             \* index of the next file of workspace.chatSessionFiles
    sessions,       \* getAllSessions: sessions
    seenIds,        \* getAllSessions: seenIds
    sqliteSessions, \* extractSessionsFromSqlite: sessions
    db,             \* the handle of extractSessionsFromSqlite: "none", "open", "closed"
    rowsLeft,       \* rows of the query result not yet processed
    escaped,        \* an exception has left getAllSessions
    lastFile,       \* history: what the file read by the last ParseFile step was
    lastDbFail,     \* history: how the running database extraction failed, or "none"
    firstOffer,     \* history: per id, the first session with a message a source offered
    query,          \* searchSessions: query
    input,          \* searchSessions: sessions
    si,             \* searchSessions: index of the next session
    results,        \* searchSessions: results
    pin,            \* the argument of the parser function applied last
    pop,            \* the parser function applied last
    pout            \* its outcome

vars == <<pc, wcount, workspace, fi, sessions, seenIds, sqliteSessions, db, rowsLeft,
          escaped, lastFile, lastDbFail, firstOffer, query, input, si, results, pin, pop, pout>>

searchVars == <<query, input, si, results>>
parseVars == <<pin, pop, pout>>

(***************************************************************************)
(* The inputs the model draws: file system, databases, JSON documents.     *)
(***************************************************************************)
S_a == <<"a">>
S_b == <<"b">>
S_Ab == <<"A", "b">>
S_A == <<"A">>
S_hi == <<"h", "i">>
S_zzz == <<"z", "z", "z">>

UserRec(c) == JObj(<<KV("role", JStr(S_user)), KV("content", JStr(c))>>)
AssistantRec(c) == JObj(<<KV("role", JStr(S_assistant)), KV("content", JStr(c))>>)
WithMessages(items) == JObj(<<KV("messages", JArr(items))>>)

\* a record of the standard format, stamped with its position k in the conversation
Turn(role, c, k) ==
    JObj(<<KV("role", JStr(role)), KV("content", JStr(c)), KV("timestamp", JNum(k))>>)

\* a request/response element whose two sides are stamped k and k + 1
Exchange(q, a, k) ==
    JObj(<<KV("request", JObj(<<KV("text", JStr(q)), KV("timestamp", JNum(k))>>)),
           KV("response", JObj(<<KV("value", JStr(a)), KV("timestamp", JNum(k + 1))>>))>>)

FileName(i) == <<"s">> \o Digits(i) \o S_json
FileNames == {FileName(i) : i \in 1..MaxFiles}

\* lists of distinct file names, as readdirSync returns them
FileLists ==
    {l \in UNION {[1..n -> FileNames] : n \in 0..MaxFiles} :
        \A i, j \in 1..Len(l) : i # j => l[i] # l[j]}

\* the workspaces discoverWorkspaces() can return at position n
WorkspaceInfos(n) ==
    {WorkspaceInfo(<<"w">> \o Digits(n), JUndef, JUndef, l, h) : l \in FileLists, h \in BOOLEAN}

NoWorkspace == WorkspaceInfo(<<>>, JUndef, JUndef, <<>>, FALSE)

\* what a transcript file can hold
FileDocs ==
    { [kind |-> "unreadable", data |-> JUndef],
      [kind |-> "invalid", data |-> JUndef],
      [kind |-> "json", data |-> JNull],
      [kind |-> "json", data |-> WithMessages(<<JObj(<<KV("request", JObj(<<KV("text", JNum(5))>>))>>)>>)],
      [kind |-> "json", data |-> WithMessages(<<>>)],
      [kind |-> "json", data |-> WithMessages(<<Exchange(S_Ab, S_b, 1), Turn(S_user, S_a, 3)>>)] }

\* what the value column of a matching row can hold
RowValues ==
    { [kind |-> "invalid", data |-> JUndef],
      [kind |-> "json", data |-> JArr(<<WithMessages(<<Turn(S_user, S_a, 1)>>),
                                         JObj(<<KV("sessionId", JStr(Basename(FileName(1), S_json))),
                                                KV("messages", JArr(<<Turn(S_user, S_b, 1),
                                                                      Turn(S_assistant, S_a, 2)>>))>>)>>)],
      [kind |-> "json", data |-> JArr(<<WithMessages(<<>>),
                                         WithMessages(<<Exchange(S_a, S_hi, 1)>>), JNull>>)],
      [kind |-> "json", data |-> JObj(<<KV("sessions",
                                          JObj(<<KV(S_zzz, WithMessages(<<>>)),
                                                 KV(Basename(FileName(1), S_json),
                                                    WithMessages(<<Turn(S_assistant, S_b, 1)>>))>>))>>)],
      [kind |-> "json", data |-> WithMessages(<<Turn(S_assistant, S_hi, 1)>>)],
      [kind |-> "json",
       data |-> JObj(<<KV("title", JNum(5)),
                       KV("messages",
                          JArr(<<JObj(<<KV("role", JStr(S_assistant)),
                                        KV("content", JObj(<<KV("text", JNum(5))>>)),
                                        KV("timestamp", JNum(1))>>)>>))>>)] }

\* variant: the query runs outside the try block
CaughtBeforeQuery(stage) == stage \in {"driver", "open"}

\* the try block of lines 322-349 catches what the stage raises
Caught(stage) == stage \in {"driver", "open", "query"}

\* firstOffer after the sessions of offered, in order
RECURSIVE Offer(_, _)
Offer(first, offered) ==
    IF offered = <<>> THEN first
    ELSE IF Len(Head(offered).messages) > 0
            /\ \A i \in 1..Len(first) : first[i].sessionId # Head(offered).sessionId
    THEN Offer(Append(first, Head(offered)), Tail(offered))
    ELSE Offer(first, Tail(offered))

\* what becomes of the session of a file that parses: dt is the outcome of
\* the title derivation
TitleState(file, first, msgs, dt) ==
    IF dt.raised THEN "raises"
    ELSE IF msgs = <<>> THEN "empty"
    ELSE IF \E i \in 1..Len(first) : first[i].sessionId = JStr(Basename(file.name, S_json))
    THEN "duplicate"
    ELSE "kept"

\* pm: the outcome of parseMessages on the parsed content of the file
ParsedState(file, first, pm) ==
    IF pm.raised THEN "raises"
    ELSE TitleState(file, first, pm.msgs,
                    DerivedTitle(OrChain(<<Get(file.data, "title"), Get(file.data, "name"),
                                           Get(file.data, "sessionTitle"),
                                           Get(file.data, "customTitle")>>),
                                 pm.msgs))

\* what the file is to the aggregation: why it gives no session
\* ("unreadable", "invalid", "raises"), or what becomes of its session
\* ("empty", "duplicate", "kept")
FileState(file, first) ==
    IF file.kind # "json" THEN file.kind
    ELSE ParsedState(file, first, parseMessages(file.data))

BadFileStates == {"unreadable", "invalid", "raises"}

(***************************************************************************)
(* getAllSessions, step by step.  The elements of discoverWorkspaces() are *)
(* drawn when the loop of line 420 reaches them.                           *)
(***************************************************************************)
Init ==
    /\ pc = "loop"
    /\ wcount = 0
    /\ workspace = NoWorkspace
    /\ fi = 1
    /\ sessions = <<>>
    /\ seenIds = {}
    /\ sqliteSessions = <<>>
    /\ db = "none"
    /\ rowsLeft = 0
    /\ escaped = FALSE
    /\ lastFile = "none"
    /\ lastDbFail = "none"
    /\ firstOffer = <<>>
    /\ query = <<>>
    /\ input = <<>>
    /\ si = 1
    /\ results = <<>>
    /\ pin = JUndef
    /\ pop = "none"
    /\ pout = [raised |-> FALSE, isNull |-> FALSE, val |-> JUndef, msgs |-> <<>>]

\* line 420: the loop takes the next workspace
NextWorkspace ==
    /\ pc = "loop"
    /\ wcount < MaxWorkspaces
    /\ \E w \in WorkspaceInfos(wcount + 1) : workspace' = w
    /\ wcount' = wcount + 1
    /\ fi' = 1
    /\ pc' = "files"
    /\ UNCHANGED <<sessions, seenIds, sqliteSessions, db, rowsLeft, escaped, lastFile,
                   lastDbFail, firstOffer>>
    /\ UNCHANGED <<searchVars, parseVars>>

\* lines 422-428: one iteration over workspace.chatSessionFiles
ParseFile ==
    /\ pc = "files"
    /\ fi <= Len(workspace.chatSessionFiles)
    /\ \E d \in FileDocs, t \in Clock :
         \E file \in {[name |-> workspace.chatSessionFiles[fi], kind |-> d.kind,
                       data |-> d.data, mtime |-> t]} :
           \E r \in {parseSessionFromFile(file, workspace)} :
              /\ lastFile' = FileState(file, firstOffer)
              /\ firstOffer' = IF r.isNull THEN firstOffer ELSE Offer(firstOffer, <<r.session>>)
              /\ IF KeepFileSession(r, seenIds)
                 THEN /\ sessions' = Append(sessions, r.session)
                      /\ seenIds' = seenIds \cup {r.session.sessionId}
                 ELSE UNCHANGED <<sessions, seenIds>>
    /\ fi' = fi + 1
    /\ UNCHANGED <<pc, wcount, workspace, sqliteSessions, db, rowsLeft, escaped, lastDbFail>>
    /\ UNCHANGED <<searchVars, parseVars>>

\* line 431: the file loop is over and extractSessionsFromSqlite is entered
EnterSqlite ==
    /\ pc = "files"
    /\ fi > Len(workspace.chatSessionFiles)
    /\ sqliteSessions' = <<>>
    /\ lastFile' = "none"

\* the catch block of lines 346-349, or the exception leaving the function
SqliteFail(stage) ==
    /\ lastDbFail' = stage
    /\ IF Caught(stage)
       THEN pc' = "merge" /\ UNCHANGED escaped
       ELSE pc' = "aborted" /\ escaped' = TRUE

\* lines 316-320: no database file
SqliteNoDb ==
    /\ EnterSqlite
    /\ ~workspace.hasStateDb
    /\ db' = "none"
    /\ pc' = "merge"
    /\ UNCHANGED <<wcount, workspace, fi, sessions, seenIds, rowsLeft, escaped, lastDbFail, firstOffer>>
    /\ UNCHANGED <<searchVars, parseVars>>

\* line 325: require('better-sqlite3') raises
SqliteDriverMissing ==
    /\ EnterSqlite
    /\ workspace.hasStateDb
    /\ db' = "none"
    /\ SqliteFail("driver")
    /\ UNCHANGED <<wcount, workspace, fi, sessions, seenIds, rowsLeft, firstOffer>>
    /\ UNCHANGED <<searchVars, parseVars>>

\* line 326: new Database raises
SqliteOpenFails ==
    /\ EnterSqlite
    /\ workspace.hasStateDb
    /\ db' = "none"
    /\ SqliteFail("open")
    /\ UNCHANGED <<wcount, workspace, fi, sessions, seenIds, rowsLeft, firstOffer>>
    /\ UNCHANGED <<searchVars, parseVars>>

\* lines 325-326: the store is opened
SqliteOpen ==
    /\ EnterSqlite
    /\ workspace.hasStateDb
    /\ db' = "open"
    /\ pc' = "query"
    /\ UNCHANGED <<wcount, workspace, fi, sessions, seenIds, rowsLeft, escaped, lastDbFail, firstOffer>>
    /\ UNCHANGED <<searchVars, parseVars>>

\* lines 328-334: prepare or all raises
SqliteQueryFails ==
    /\ pc = "query"
    /\ SqliteFail("query")
    /\ UNCHANGED <<wcount, workspace, fi, sessions, seenIds, sqliteSessions, db, rowsLeft,
                   lastFile, firstOffer>>
    /\ UNCHANGED <<searchVars, parseVars>>

\* lines 328-334: the query returns its rows
SqliteQuery ==
    /\ pc = "query"
    /\ \E n \in 0..MaxRows : rowsLeft' = n
    /\ pc' = "rows"
    /\ UNCHANGED <<wcount, workspace, fi, sessions, seenIds, sqliteSessions, db, escaped,
                   lastFile, lastDbFail, firstOffer>>
    /\ UNCHANGED <<searchVars, parseVars>>

\* lines 336-343: one row; a raise inside processDbEntry ends the row.
\* t is the value of Date.now() while the row is processed.
SqliteRow ==
    /\ pc = "rows"
    /\ rowsLeft > 0
    /\ \E row \in RowValues, t \in Clock :
         sqliteSessions' =
             IF row.kind = "json"
             THEN processDbEntry(row.data, workspace, sqliteSessions, t).sessions
             ELSE sqliteSessions
    /\ rowsLeft' = rowsLeft - 1
    /\ UNCHANGED <<pc, wcount, workspace, fi, sessions, seenIds, db, escaped, lastFile,
                   lastDbFail, firstOffer>>
    /\ UNCHANGED <<searchVars, parseVars>>

\* line 345: db.close()
SqliteClose ==
    /\ pc = "rows"
    /\ rowsLeft = 0
    /\ db' = "closed"
    /\ pc' = "merge"
    /\ UNCHANGED <<wcount, workspace, fi, sessions, seenIds, sqliteSessions, rowsLeft, escaped,
                   lastFile, lastDbFail, firstOffer>>
    /\ UNCHANGED <<searchVars, parseVars>>

\* lines 431-437: extractSessionsFromSqlite has returned; its sessions are
\* merged and the iteration of line 420 ends
MergeSqlite ==
    /\ pc = "merge"
    /\ \E m \in {MergeLoop(sqliteSessions, sessions, seenIds)} :
         sessions' = m.sessions /\ seenIds' = m.seenIds
    /\ firstOffer' = Offer(firstOffer, sqliteSessions)
    /\ sqliteSessions' = <<>>
    /\ db' = "none"
    /\ lastDbFail' = "none"
    /\ workspace' = NoWorkspace
    /\ fi' = 1
    /\ pc' = "loop"
    /\ UNCHANGED <<wcount, rowsLeft, escaped, lastFile>>
    /\ UNCHANGED <<searchVars, parseVars>>

\* lines 440-443: no workspace is left; sort and return
SortAndReturn ==
    /\ pc = "loop"
    /\ sessions' = SortSessions(sessions)
    /\ pc' = "done"
    /\ UNCHANGED <<wcount, workspace, fi, seenIds, sqliteSessions, db, rowsLeft, escaped,
                   lastFile, lastDbFail, firstOffer>>
    /\ UNCHANGED <<searchVars, parseVars>>

Next ==
    \/ NextWorkspace
    \/ ParseFile
    \/ SqliteNoDb
    \/ SqliteDriverMissing
    \/ SqliteOpenFails
    \/ SqliteOpen
    \/ SqliteQueryFails
    \/ SqliteQuery
    \/ SqliteRow
    \/ SqliteClose
    \/ MergeSqlite
    \/ SortAndReturn

Spec == Init /\ [][Next]_vars

(***************************************************************************)
(* Properties of getAllSessions.                                           *)
(***************************************************************************)
NoDuplicateIds(list) ==
    \A i, j \in 1..Len(list) : i # j => list[i].sessionId # list[j].sessionId

SameSessions(list, other) ==
    /\ Len(list) = Len(other)
    /\ \A i \in 1..Len(list) : \E j \in 1..Len(other) : list[i] = other[j]

\* the position of the session with this id in the aggregation order
OfferIndex(id) == CHOOSE k \in 1..Len(firstOffer) : firstOffer[k].sessionId = id

\* C1: the sessions of getAllSessions have pairwise distinct sessionIds, and
\* they are exactly, per id, the first session with at least one message
\* that a source offered in aggregation order (in that order until the
\* final sort); an earlier zero-message session does not reserve its id.
C1_DedupFirstWins ==
    /\ NoDuplicateIds(sessions)
    /\ pc # "done" => sessions = firstOffer
    /\ pc = "done" => SameSessions(sessions, firstOffer)

\* a file session with a message has just been dropped for its id, while
\* sessions of both sources are kept
C1_Witness ==
    /\ pc = "files"
    /\ lastFile = "duplicate"
    /\ \E i \in 1..Len(sessions) : sessions[i].source = "sqlite"
    /\ \E i \in 1..Len(sessions) : sessions[i].source = "json"

\* C2: every session in the list of getAllSessions has at least one message.
C2_NoEmptySession ==
    \A i \in 1..Len(sessions) : Len(sessions[i].messages) >= 1

\* a zero-message file has just been read and skipped, and sessions of
\* both sources were kept
C2_Witness ==
    /\ pc = "files"
    /\ lastFile = "empty"
    /\ \E i \in 1..Len(sessions) : sessions[i].source = "sqlite"
    /\ \E i \in 1..Len(sessions) : sessions[i].source = "json"

\* C3: the returned list is ordered by modifiedAt descending, and sessions
\* with equal modifiedAt keep their relative aggregation order.
C3_SortedStable ==
    pc = "done" =>
        \A i, j \in 1..Len(sessions) : i < j =>
            /\ sessions[i].modifiedAt >= sessions[j].modifiedAt
            /\ sessions[i].modifiedAt = sessions[j].modifiedAt
                 => OfferIndex(sessions[i].sessionId) < OfferIndex(sessions[j].sessionId)

\* the sort has reordered the list, and the result holds a tie
C3_Witness ==
    /\ pc = "done"
    /\ sessions # firstOffer
    /\ \E i, j \in 1..Len(sessions) :
         i < j /\ sessions[i].modifiedAt = sessions[j].modifiedAt

\* C4: when extractSessionsFromSqlite returns, the handle it opened is closed.
C4_HandleClosedOnReturn ==
    pc = "merge" => db # "open"

\* C5: extractSessionsFromSqlite never raises; when the driver is missing,
\* the store cannot be opened or the query fails it returns no session, and
\* getAllSessions goes on with the sessions it has.
C5_SqliteSoftFail ==
    /\ [](~escaped /\ pc # "aborted")
    /\ [](pc = "merge" /\ lastDbFail # "none" => sqliteSessions = <<>>)
    /\ [][pc = "merge" /\ lastDbFail # "none" => sessions' = sessions /\ pc' \in {"merge", "loop"}]_vars

\* a database extraction has failed after sessions were kept
C5_Witness ==
    /\ pc = "merge"
    /\ lastDbFail = "query"
    /\ sessions # <<>>

\* C6: a file that cannot be read, is not valid JSON or makes parsing raise
\* gives no session and raises nothing: the step that reads it changes
\* neither the sessions nor the seen ids, and the loop goes on.
C6_BadFileSkipped ==
    /\ [](~escaped /\ pc # "aborted")
    /\ [][pc = "files" /\ fi' = fi + 1 /\ lastFile' \in BadFileStates =>
            /\ sessions' = sessions
            /\ seenIds' = seenIds
            /\ pc' = "files"]_vars

\* a file whose parsing raises has been read after a session was kept
C6_Witness ==
    /\ pc = "files"
    /\ lastFile = "raises"
    /\ sessions # <<>>

(***************************************************************************)
(* searchSessions, one session per step, over sessions the session builder *)
(* produces.                                                               *)
(***************************************************************************)
SearchTitles == {JUndef, JStr(S_A)}
SearchMessages ==
    { <<UserRec(S_a)>>, <<UserRec(S_Ab)>>, <<UserRec(S_b)>>, <<UserRec(S_b), AssistantRec(S_Ab)>> }

SearchDoc(title, items) ==
    IF title = JUndef THEN WithMessages(items)
    ELSE JObj(<<KV("title", title), KV("messages", JArr(items))>>)

SearchSessions ==
    { parseSessionFromFile([name |-> FileName(1), kind |-> "json", data |-> SearchDoc(t, m),
                            mtime |-> 1], WorkspaceInfo(<<"w", "1">>, JUndef, JUndef,
                                                        <<FileName(1)>>, FALSE)).session :
        t \in SearchTitles, m \in SearchMessages }

SearchInputs == UNION {[1..n -> SearchSessions] : n \in 0..MaxSearchSessions}

Queries == { <<>>, <<"a">>, <<"A", "B">>, <<"h">> }

InitSearch ==
    /\ pc = "search"
    /\ wcount = 0
    /\ workspace = NoWorkspace
    /\ fi = 1
    /\ sessions = <<>>
    /\ seenIds = {}
    /\ sqliteSessions = <<>>
    /\ db = "none"
    /\ rowsLeft = 0
    /\ escaped = FALSE
    /\ lastFile = "none"
    /\ lastDbFail = "none"
    /\ firstOffer = <<>>
    /\ query \in Queries
    /\ input \in SearchInputs
    /\ si = 1
    /\ results = <<>>
    /\ pin = JUndef
    /\ pop = "none"
    /\ pout = [raised |-> FALSE, isNull |-> FALSE, val |-> JUndef, msgs |-> <<>>]

aggVars == <<wcount, workspace, fi, sessions, seenIds, sqliteSessions, db, rowsLeft,
             escaped, lastFile, lastDbFail, firstOffer>>

\* lines 453-469: one iteration of the loop over the sessions
SearchStep ==
    /\ pc = "search"
    /\ si <= Len(input)
    /\ \E r \in {SearchOne(results, input[si], query)} :
         IF r.raised
         THEN pc' = "search_raised" /\ UNCHANGED <<results, si>>
         ELSE pc' = pc /\ results' = r.results /\ si' = si + 1
    /\ UNCHANGED <<query, input>>
    /\ UNCHANGED <<aggVars, parseVars>>

\* line 471
SearchReturn ==
    /\ pc = "search"
    /\ si > Len(input)
    /\ pc' = "search_done"
    /\ UNCHANGED <<searchVars, aggVars, parseVars>>

NextSearch == SearchStep \/ SearchReturn

SpecSearch == InitSearch /\ [][NextSearch]_vars

\* the session matches: its folded title or a folded message content
\* contains the folded query
SessionMatches(session, q) ==
    \/ Includes(ToLowerCase(session.title.s), ToLowerCase(q))
    \/ \E k \in 1..Len(session.messages) :
          Includes(ToLowerCase(session.messages[k].content.s), ToLowerCase(q))

ContentMatches(m) == Includes(ToLowerCase(m.content.s), ToLowerCase(query))

\* C7: searchSessions returns a result for a session exactly when its folded
\* title or one of its messages' folded content contains the folded query,
\* and a result's matches are the messages of its session whose content
\* contains the query, in message order.
C7_SearchMatches ==
    pc = "search_done" =>
        /\ \A i \in 1..Len(input) :
              SessionMatches(input[i], query) <=> \E k \in 1..Len(results) : results[k].session = input[i]
        /\ \A k \in 1..Len(results) :
              results[k].matches = SelectSeq(results[k].session.messages, ContentMatches)

\* a search has returned a session matched by its title alone, next to one
\* matched by a message and one not matched
C7_Witness ==
    /\ pc = "search_done"
    /\ \E k \in 1..Len(results) : results[k].matches = <<>>
    /\ \E k \in 1..Len(results) :
          /\ results[k].matches # <<>>
          /\ Len(results[k].matches) < Len(results[k].session.messages)
    /\ Len(results) < Len(input)

\* res is inp with some elements left out
RECURSIVE IsSubsequence(_, _)
IsSubsequence(res, inp) ==
    IF res = <<>> THEN TRUE
    ELSE IF inp = <<>> THEN FALSE
    ELSE IF Head(res) = Head(inp) THEN IsSubsequence(Tail(res), Tail(inp))
    ELSE IsSubsequence(res, Tail(inp))

\* C8: the sessions of the result are a subsequence of the input list.
C8_SearchOrder ==
    pc = "search_done" =>
        IsSubsequence([k \in 1..Len(results) |-> results[k].session], input)

\* a search has returned two different sessions and left one out
C8_Witness ==
    /\ pc = "search_done"
    /\ Len(results) >= 2
    /\ results[1].session # results[2].session
    /\ Len(results) < Len(input)

(***************************************************************************)
(* The parser functions applied to JSON values.                            *)
(***************************************************************************)
Atoms ==
    {JNull, JBool(FALSE), JBool(TRUE), JNum(0), JNum(5), EmptyStr, JStr(S_a), JStr(S_Ab)}

ContentKeys == <<"content", "text", "value", "message">>

\* objects with one or two of the content fields
ContentKeyPairs == {<<i, j>> \in (1..4) \X (1..4) : i < j}

ContentObjects ==
    {JObj(<<KV(ContentKeys[i], v)>>) : i \in 1..4, v \in Atoms}
    \cup {JObj(<<KV(ContentKeys[p[1]], v), KV(ContentKeys[p[2]], w)>>) :
            p \in ContentKeyPairs, v \in {EmptyStr, JNum(5)}, w \in {JStr(S_b), JArr(<<>>)}}

ArrayElements ==
    {JNull, JNum(5), EmptyStr, JStr(S_a), JArr(<<JStr(S_b)>>),
     JObj(<<KV("text", JStr(S_b))>>), JObj(<<KV("message", JStr(S_b))>>),
     JObj(<<KV("value", JNum(5))>>)}

Arrays == {JArr(l) : l \in UNION {[1..n -> ArrayElements] : n \in 0..MaxArrLen}}

ContentValues == Atoms \cup ContentObjects \cup Arrays

RoleKeys == <<"role", "type", "kind">>
RoleValues == {JStr(S_user), JStr(S_bot), JStr(S_system), JStr(S_zzz), JNum(5)}

RoleParts == {<<>>} \cup {<<KV(RoleKeys[i], v)>> : i \in 1..3, v \in RoleValues}
ContentParts == {<<>>} \cup {<<KV(ContentKeys[i], v)>> : i \in 1..4, v \in ContentValues}

S_hello == <<"h", "e", "l", "l", "o">>

\* records with several role fields or several content fields, written in
\* another order than the one parseMessage reads them in
ExampleRecords ==
    { JObj(<<KV("role", JStr(S_user)), KV("content", JStr(S_hello))>>),
      JObj(<<KV("role", JStr(S_bot)), KV("text", JArr(<<JStr(S_a), JStr(S_b)>>))>>),
      JObj(<<KV("kind", JStr(S_user)), KV("type", JStr(S_bot)),
             KV("text", JStr(S_a)), KV("content", JStr(S_b))>>),
      JObj(<<KV("role", EmptyStr), KV("type", JStr(S_User)),
             KV("content", EmptyStr), KV("message", JStr(S_b)), KV("value", JArr(<<>>))>>),
      JObj(<<KV("role", JStr(S_zzz)), KV("kind", JStr(S_user)),
             KV("value", JObj(<<KV("text", JNum(5))>>)), KV("timestamp", JNum(5))>>),
      JObj(<<KV("type", JStr(<<"U", "S", "E", "R">>)), KV("kind", JStr(S_ai)),
             KV("content", JArr(<<EmptyStr>>)), KV("text", JStr(S_a))>>) }

\* message records: an optional role field and an optional content field
MessageRecords == {JObj(r \o c) : r \in RoleParts, c \in ContentParts} \cup Atoms \cup ExampleRecords

NoOutcome == [raised |-> FALSE, isNull |-> FALSE, val |-> JUndef, msgs |-> <<>>]

InitParse ==
    /\ pc = "parse"
    /\ wcount = 0
    /\ workspace = NoWorkspace
    /\ fi = 1
    /\ sessions = <<>>
    /\ seenIds = {}
    /\ sqliteSessions = <<>>
    /\ db = "none"
    /\ rowsLeft = 0
    /\ escaped = FALSE
    /\ lastFile = "none"
    /\ lastDbFail = "none"
    /\ firstOffer = <<>>
    /\ query = <<>>
    /\ input = <<>>
    /\ si = 1
    /\ results = <<>>
    /\ pin = JUndef
    /\ pop = "none"
    /\ pout = NoOutcome

\* extractContent(data)
ApplyExtractContent ==
    /\ pc = "parse"
    /\ pop = "none"
    /\ \E v \in ContentValues :
         /\ pin' = v
         /\ \E r \in {extractContent(v)} :
              pout' = [raised |-> r.raised, isNull |-> FALSE, val |-> r.val, msgs |-> <<>>]
    /\ pop' = "extractContent"
    /\ UNCHANGED <<pc, aggVars, searchVars>>

\* parseMessage(data)
ApplyParseMessage ==
    /\ pc = "parse"
    /\ pop = "none"
    /\ \E v \in MessageRecords :
         /\ pin' = v
         /\ \E r \in {parseMessage(v)} :
              pout' = [raised |-> r.raised, isNull |-> r.isNull, val |-> JUndef,
                       msgs |-> IF r.raised \/ r.isNull THEN <<>> ELSE <<r.msg>>]
    /\ pop' = "parseMessage"
    /\ UNCHANGED <<pc, aggVars, searchVars>>

\* elements of a message container
ContainerItems ==
    { JNull, JStr(S_a), UserRec(S_a),
      JObj(<<KV("content", JStr(S_a))>>),
      JObj(<<KV("type", JStr(S_zzz))>>),
      JObj(<<KV("role", JStr(S_user))>>),
      JObj(<<KV("role", JStr(S_assistant)), KV("message", JStr(S_hi))>>),
      JObj(<<KV("request", JStr(S_a)), KV("response", JStr(S_b))>>),
      JObj(<<KV("request", JObj(<<KV("text", JStr(S_a)), KV("timestamp", JNum(5))>>)),
             KV("response", JArr(<<JStr(S_a), JNull, JObj(<<KV("value", JStr(S_b))>>)>>))>>),
      JObj(<<KV("request", JObj(<<KV("text", JNum(5))>>))>>),
      JObj(<<KV("response", JArr(<<JArr(<<JNull>>)>>))>>) }

ItemLists(n) == UNION {[1..k -> ContainerItems] : k \in 0..n}

\* session records: one container, two containers of at most one element, or
\* four containers of which the first yields nothing and the second is no list
SessionDocs ==
    {JObj(<<KV(messageContainers[i], JArr(l))>>) : i \in 1..6, l \in ItemLists(MaxItems)}
    \cup {JObj(<<KV(messageContainers[i], JStr(S_a))>>) : i \in 1..6}
    \cup {JObj(<<KV(messageContainers[6], JArr(l)), KV(messageContainers[2], JArr(m))>>) :
            l \in ItemLists(1), m \in ItemLists(1)}
    \cup {JObj(<<KV(messageContainers[5], JArr(l)), KV(messageContainers[1], JArr(<<JNull>>)),
                 KV(messageContainers[2], JStr(S_a)), KV(messageContainers[4], JArr(m))>>) :
            l \in ItemLists(1), m \in ItemLists(1)}
    \cup {JNull, JNum(5), JStr(S_a)}

\* parseMessages(data)
ApplyParseMessages ==
    /\ pc = "parse"
    /\ pop = "none"
    /\ \E v \in SessionDocs :
         /\ pin' = v
         /\ \E r \in {parseMessages(v)} :
              pout' = [raised |-> r.raised, isNull |-> FALSE, val |-> JUndef, msgs |-> r.msgs]
    /\ pop' = "parseMessages"
    /\ UNCHANGED <<pc, aggVars, searchVars>>

NextParse == ApplyExtractContent \/ ApplyParseMessage \/ ApplyParseMessages

SpecParse == InitParse /\ [][NextParse]_vars

\* the record names no recognised role and holds none of the content fields
NoRoleNoContent(v) ==
    /\ v.t = "object"
    /\ \A i \in 1..Len(v.o) :
          /\ v.o[i].k \notin {"content", "text", "value", "message"}
          /\ v.o[i].k \in {"role", "type", "kind"} =>
                v.o[i].v \notin {JStr(S_user), JStr(S_human), JStr(S_User), JStr(S_assistant),
                                 JStr(S_bot), JStr(S_copilot), JStr(S_Assistant), JStr(S_ai),
                                 JStr(S_system)}

\* C9: no message with role unknown and empty content is produced:
\* parseMessage returns nothing for a record with no recognised role and no
\* content, and neither parseMessage nor parseMessages yields such a message.
C9_NoUnknownEmptyMessage ==
    /\ pop \in {"parseMessage", "parseMessages"} =>
          \A k \in 1..Len(pout.msgs) :
              ~(pout.msgs[k].role = "unknown" /\ ~Truthy(pout.msgs[k].content))
    /\ pop = "parseMessage" /\ NoRoleNoContent(pin) => pout.isNull

\* parseMessage has rejected a record that names an unrecognised role
C9_Witness ==
    /\ pop = "parseMessage"
    /\ pin = JObj(<<KV("type", JStr(S_zzz))>>)
    /\ pout.isNull

\* C10: extractContent returns a string for every JSON value and never raises.
C10_ExtractContentTotal ==
    pop = "extractContent" => ~pout.raised /\ pout.val.t = "string"

\* the value of the first of the fields keys of v that is set (truthy), the
\* empty string when none is
FirstSet(v, keys) ==
    IF \E i \in 1..Len(keys) : Truthy(Get(v, keys[i]))
    THEN Get(v, keys[CHOOSE i \in 1..Len(keys) :
                       /\ Truthy(Get(v, keys[i]))
                       /\ \A j \in 1..(i - 1) : ~Truthy(Get(v, keys[j]))])
    ELSE EmptyStr

\* the role a role name stands for
RoleNamed(name) ==
    IF name \in {JStr(S_user), JStr(S_human), JStr(S_User)} THEN "user"
    ELSE IF name \in {JStr(S_assistant), JStr(S_bot), JStr(S_copilot), JStr(S_Assistant),
                      JStr(S_ai)} THEN "assistant"
    ELSE IF name = JStr(S_system) THEN "system"
    ELSE "unknown"

\* the first non-empty extraction among the content fields of v, the empty
\* string when every extraction is empty
FirstExtraction(v) ==
    IF \E i \in 1..Len(ContentKeys) : Truthy(extractContent(Get(v, ContentKeys[i])).val)
    THEN extractContent(Get(v, ContentKeys[CHOOSE i \in 1..Len(ContentKeys) :
            /\ Truthy(extractContent(Get(v, ContentKeys[i])).val)
            /\ \A j \in 1..(i - 1) : ~Truthy(extractContent(Get(v, ContentKeys[j])).val)])).val
    ELSE EmptyStr

\* C11: parseMessage takes the role from the first set field among role,
\* type, kind through the alias lists (anything else is unknown), and the
\* content from the first non-empty extraction among content, text, value,
\* message; {role:"user", content:"hello"} gives user/"hello" without a
\* timestamp and {role:"bot", text:["a","b"]} gives assistant/"a\nb".
C11_RoleAndContent ==
    /\ pop = "parseMessage" /\ pin.t = "object" /\ ~pout.raised /\ ~pout.isNull =>
          /\ pout.msgs[1].role = RoleNamed(FirstSet(pin, RoleKeys))
          /\ pout.msgs[1].content = FirstExtraction(pin)
    /\ pop = "parseMessage"
       /\ pin = JObj(<<KV("role", JStr(S_user)), KV("content", JStr(S_hello))>>) =>
          pout.msgs = <<Msg("user", JStr(S_hello), JUndef, JUndef, JUndef, pin)>>
    /\ pop = "parseMessage"
       /\ pin = JObj(<<KV("role", JStr(S_bot)), KV("text", JArr(<<JStr(S_a), JStr(S_b)>>))>>) =>
          /\ Len(pout.msgs) = 1
          /\ pout.msgs[1].role = "assistant"
          /\ pout.msgs[1].content = JStr(<<"a", "\n", "b">>)

\* parseMessage has read a record whose fields are written in another order
\* than the one it reads them in
C11_Witness ==
    /\ pop = "parseMessage"
    /\ pin = JObj(<<KV("kind", JStr(S_user)), KV("type", JStr(S_bot)),
                    KV("text", JStr(S_a)), KV("content", JStr(S_b))>>)
    /\ Len(pout.msgs) = 1
    /\ pout.msgs[1].role = "assistant"
    /\ pout.msgs[1].content = JStr(S_b)


(***************************************************************************)
(* discoverWorkspaces.  A storage root is [listable, entries]; an entry is *)
(* [name, isDirectory, hasChats, hasStateDb, descriptor, chats], where     *)
(* descriptor is what workspace.json holds ([kind, data], kind one of      *)
(* "missing", "unreadable", "invalid", "json") and chats is what the       *)
(* chatSessions folder holds ([listable, files]).                          *)
(***************************************************************************)
MaxRoots == 2
MaxEntries == 2

S_fileScheme == <<"f", "i", "l", "e", ":", "/", "/">>
SchemeLen == 7

\* the characters U+0020 .. U+007E (the grave accent written by its code point)
PrintableAscii ==
    <<" ", "!", "\"", "#", "$", "%", "&", "'", "(", ")", "*", "+", ",", "-", ".", "/",
      "0", "1", "2", "3", "4", "5", "6", "7", "8", "9", ":", ";", "<", "=", ">", "?",
      "@", "A", "B", "C", "D", "E", "F", "G", "H", "I", "J", "K", "L", "M", "N", "O",
      "P", "Q", "R", "S", "T", "U", "V", "W", "X", "Y", "Z", "[", "\\", "]", "^", "_",
      "U+0060", "a", "b", "c", "d", "e", "f", "g", "h", "i", "j", "k", "l", "m", "n", "o",
      "p", "q", "r", "s", "t", "u", "v", "w", "x", "y", "z", "{", "|", "}", "~">>

HexDigits == <<"0", "1", "2", "3", "4", "5", "6", "7", "8", "9",
               "A", "B", "C", "D", "E", "F">>
HexLower == <<"0", "1", "2", "3", "4", "5", "6", "7", "8", "9",
              "a", "b", "c", "d", "e", "f">>
NoHex == 16

\* the value of a hexadecimal digit, NoHex for another character
HexValue(c) ==
    IF \E i \in 1..16 : HexDigits[i] = c \/ HexLower[i] = c
    THEN (CHOOSE i \in 1..16 : HexDigits[i] = c \/ HexLower[i] = c) - 1
    ELSE NoHex

StrOk(str) == [raised |-> FALSE, s |-> str]
StrRaise == [raised |-> TRUE, s |-> <<>>]

DecodedCons(c, rest) == IF rest.raised THEN StrRaise ELSE StrOk(<<c>> \o rest.s)

\* decodeURIComponent on escapes of U+0020 .. U+007E; a "%" that is not
\* followed by two hexadecimal digits, and a lone escape over 7F, raise a
\* URIError (escapes of other code points are not among the inputs drawn)
RECURSIVE decodeURIComponent(_)
decodeURIComponent(str) ==
    IF str = <<>> THEN StrOk(<<>>)
    ELSE IF Head(str) # "%" THEN DecodedCons(Head(str), decodeURIComponent(Tail(str)))
    ELSE IF Len(str) < 3 THEN StrRaise
    ELSE IF HexValue(str[2]) = NoHex \/ HexValue(str[3]) = NoHex THEN StrRaise
    ELSE IF 16 * HexValue(str[2]) + HexValue(str[3]) \in 32..126
    THEN DecodedCons(PrintableAscii[16 * HexValue(str[2]) + HexValue(str[3]) - 31],
                     decodeURIComponent(SubSeq(str, 4, Len(str))))
    ELSE StrRaise

\* str without its trailing slashes
RECURSIVE StripSlashes(_)
StripSlashes(str) ==
    IF str # <<>> /\ str[Len(str)] = "/" THEN StripSlashes(SubSeq(str, 1, Len(str) - 1))
    ELSE str

\* the part of str behind its last slash
AfterLastSlash(str) ==
    IF \E i \in 1..Len(str) : str[i] = "/"
    THEN SubSeq(str, 1 + CHOOSE i \in 1..Len(str) :
                           str[i] = "/" /\ \A j \in (i + 1)..Len(str) : str[j] # "/",
                Len(str))
    ELSE str

\* path.basename(p) on POSIX paths
PathBasename(p) == AfterLastSlash(StripSlashes(p))

ProjectOk(path) == [raised |-> FALSE, set |-> TRUE, path |-> path]
NoProject == [raised |-> FALSE, set |-> FALSE, path |-> <<>>]
ProjectRaise == [raised |-> TRUE, set |-> FALSE, path |-> <<>>]

\* lines 106-108: d is the outcome of decodeURIComponent
Decoded(d) == IF d.raised THEN ProjectRaise ELSE ProjectOk(d.s)

\* lines 100-109: p is wsData.folder || wsData.workspace
ProjectOf(p) ==
    IF ~Truthy(p) THEN NoProject
    ELSE IF p.t # "string" THEN ProjectRaise
    ELSE Decoded(decodeURIComponent(IF Prefix(p.s, SchemeLen) = S_fileScheme
                                    THEN SubSeq(p.s, SchemeLen + 1, Len(p.s))
                                    ELSE p.s))

\* lines 97-109, without the catch
ReadDescriptor(descriptor) ==
    IF descriptor.kind = "missing" THEN NoProject
    ELSE IF descriptor.kind # "json" THEN ProjectRaise
    ELSE IF descriptor.data.t \in {"null", "undefined"} THEN ProjectRaise
    ELSE ProjectOf(OrChain(<<Get(descriptor.data, "folder"), Get(descriptor.data, "workspace")>>))

\* variant: the error of the descriptor is not caught where it is raised
RethrowDescriptor(r) == r

\* the catch of lines 110-112
CatchDescriptor(r) == IF r.raised THEN NoProject ELSE r

FilesOk(files) == [raised |-> FALSE, files |-> files]
FilesRaise == [raised |-> TRUE, files |-> <<>>]

\* lines 118-121, without the catch
ListChats(entry) ==
    IF ~entry.hasChats THEN FilesOk(<<>>)
    ELSE IF ~entry.chats.listable THEN FilesRaise
    ELSE FilesOk(SelectSeq(entry.chats.files, LAMBDA f : EndsWith(f, S_json)))

\* variant: the error of the listing is not caught where it is raised
RethrowListing(r) == r

\* the catch of lines 122-124
CatchListing(r) == IF r.raised THEN FilesOk(<<>>) ELSE r


FoundOk(ws) == [raised |-> FALSE, workspaces |-> ws]
FoundRaise(ws) == [raised |-> TRUE, workspaces |-> ws]

\* lines 88-93 and 107-108, 121: the workspace of an entry
EntryWorkspace(entry, project, listing) ==
    WorkspaceInfo(entry.name,
                  IF project.set THEN JStr(project.path) ELSE JUndef,
                  IF project.set THEN JStr(PathBasename(project.path)) ELSE JUndef,
                  listing.files, entry.hasStateDb)

\* the loop of line 77 over the entries of one root, from the entry at index k on
RECURSIVE EntryLoop(_, _, _)

\* line 127, or the error that leaves the loop
PushWorkspace(entries, k, workspaces, project, listing) ==
    IF project.raised \/ listing.raised THEN FoundRaise(workspaces)
    ELSE EntryLoop(entries, k + 1, Append(workspaces, EntryWorkspace(entries[k], project, listing)))

EntryLoop(entries, k, workspaces) ==
    IF k > Len(entries) THEN FoundOk(workspaces)
    ELSE IF ~entries[k].isDirectory THEN EntryLoop(entries, k + 1, workspaces)
    ELSE IF ~(entries[k].hasChats \/ entries[k].hasStateDb) THEN EntryLoop(entries, k + 1, workspaces)
    ELSE PushWorkspace(entries, k, workspaces,
                       CatchDescriptor(ReadDescriptor(entries[k].descriptor)),
                       CatchListing(ListChats(entries[k])))

\* lines 75-129, without the catch: readdirSync of the root, then its entries
ReadRoot(root, workspaces) ==
    IF ~root.listable THEN FoundRaise(workspaces)
    ELSE EntryLoop(root.entries, 1, workspaces)

\* the catch of lines 130-132: what was pushed stays
CatchRoot(r) == FoundOk(r.workspaces)

\* the loop of line 73 over the storage roots, from the root at index k on
RECURSIVE StorageLoop(_, _, _)

\* r: the outcome of the iteration for the root at index k
NextRoot(roots, k, r) ==
    IF r.raised THEN r ELSE StorageLoop(roots, k + 1, r.workspaces)

StorageLoop(roots, k, workspaces) ==
    IF k > Len(roots) THEN FoundOk(workspaces)
    ELSE NextRoot(roots, k, CatchRoot(ReadRoot(roots[k], workspaces)))

\* roots: what the paths of getWorkspaceStoragePaths() hold
discoverWorkspaces(roots) == StorageLoop(roots, 1, <<>>)

(***************************************************************************)
(* discoverWorkspaces applied to storage roots.                            *)
(***************************************************************************)
Entry(name, isDirectory, hasChats, hasStateDb, descriptor, chats) ==
    [name |-> name, isDirectory |-> isDirectory, hasChats |-> hasChats,
     hasStateDb |-> hasStateDb, descriptor |-> descriptor, chats |-> chats]

Descriptor(kind, data) == [kind |-> kind, data |-> data]
Chats(listable, files) == [listable |-> listable, files |-> files]

S_uriSpace == S_fileScheme \o <<"/", "p", "/", "a", "%", "2", "0", "b">>
S_uriBad == S_fileScheme \o <<"/", "p", "/", "a", "%", "2">>
S_uriNotHex == <<"/", "p", "/", "%", "z", "z">>
S_plainPath == <<"/", "p", "/", "a", "p", "p", "/">>
S_notes == <<"n", "o", "t", "e", "s", ".", "t", "x", "t">>

\* descriptors that give a project path
GoodDescriptors ==
    { Descriptor("json", JObj(<<KV("folder", JStr(S_uriSpace))>>)),
      Descriptor("json", JObj(<<KV("workspace", JStr(S_plainPath))>>)),
      Descriptor("json", JObj(<<KV("folder", JNum(0)), KV("workspace", JStr(S_uriSpace))>>)),
      Descriptor("json", JObj(<<KV("folder", JStr(S_fileScheme))>>)) }

\* descriptors that are missing, unreadable, not JSON, without the two
\* fields, with a value that is not a string, or with a URI that cannot be decoded
BadDescriptors ==
    { Descriptor("missing", JUndef),
      Descriptor("unreadable", JUndef),
      Descriptor("invalid", JUndef),
      Descriptor("json", JNull),
      Descriptor("json", JNum(5)),
      Descriptor("json", JObj(<<KV("name", JStr(S_a))>>)),
      Descriptor("json", JObj(<<KV("folder", JNum(5))>>)),
      Descriptor("json", JObj(<<KV("workspace", JArr(<<JStr(S_plainPath)>>))>>)),
      Descriptor("json", JObj(<<KV("folder", JStr(S_uriBad))>>)),
      Descriptor("json", JObj(<<KV("workspace", JStr(S_uriNotHex))>>)) }

\* entries that differ in what they are and hold
StructureEntries ==
    { Entry(<<"w", "a">>, TRUE, TRUE, FALSE,
            Descriptor("json", JObj(<<KV("folder", JStr(S_uriSpace))>>)),
            Chats(TRUE, <<FileName(1), S_notes>>)),
      Entry(<<"w", "b">>, TRUE, TRUE, TRUE, Descriptor("missing", JUndef), Chats(FALSE, <<>>)),
      Entry(<<"w", "c">>, FALSE, TRUE, TRUE, Descriptor("missing", JUndef), Chats(TRUE, <<>>)),
      Entry(<<"w", "d">>, TRUE, FALSE, FALSE, Descriptor("missing", JUndef), Chats(TRUE, <<>>)),
      Entry(<<"w", "e">>, TRUE, FALSE, TRUE, Descriptor("invalid", JUndef), Chats(TRUE, <<>>)) }

\* entries that differ in their descriptor
DescriptorEntries ==
    { Entry(<<"w", "x">>, TRUE, FALSE, TRUE, d, Chats(TRUE, <<>>)) :
        d \in GoodDescriptors \cup BadDescriptors }

\* directory listings: entries with distinct names
EntryLists(n) ==
    {l \in UNION {[1..k -> StructureEntries] : k \in 0..n} :
        \A i, j \in 1..Len(l) : i # j => l[i] # l[j]}

Root(listable, entries) == [listable |-> listable, entries |-> entries]

Roots ==
    {Root(TRUE, l) : l \in EntryLists(MaxEntries)}
    \cup {Root(FALSE, <<e>>) : e \in {x \in StructureEntries : x.name = <<"w", "a">>}}

Disks ==
    UNION {[1..n -> Roots] : n \in 0..MaxRoots}
    \cup {<<Root(TRUE, <<x, e>>)>> : x \in DescriptorEntries,
                                     e \in {y \in StructureEntries : y.name = <<"w", "e">>}}

\* discoverWorkspaces()
ApplyDiscoverWorkspaces ==
    /\ pc = "parse"
    /\ pop = "none"
    /\ \E roots \in Disks :
         /\ pin' = roots
         /\ \E r \in {discoverWorkspaces(roots)} :
              pout' = [raised |-> r.raised, isNull |-> FALSE, val |-> JUndef, msgs |-> <<>>,
                       workspaces |-> r.workspaces]
    /\ pop' = "discoverWorkspaces"
    /\ UNCHANGED <<pc, aggVars, searchVars>>

NextDiscover == ApplyDiscoverWorkspaces

SpecDiscover == InitParse /\ [][NextDiscover]_vars

\* the subdirectories of the listable roots that hold a transcripts folder
\* or a state database, in listing order
RECURSIVE Subdirectories(_)
Subdirectories(roots) ==
    IF roots = <<>> THEN <<>>
    ELSE (IF Head(roots).listable
          THEN SelectSeq(Head(roots).entries,
                         LAMBDA e : e.isDirectory /\ (e.hasChats \/ e.hasStateDb))
          ELSE <<>>) \o Subdirectories(Tail(roots))

\* C12: discoverWorkspaces emits exactly one WorkspaceInfo per subdirectory
\* that has a transcripts folder or a state database, whatever workspace.json
\* is; with a descriptor that is missing, not JSON, without folder and
\* workspace, with a non-string value or with an undecodable URI the
\* workspace has neither projectPath nor projectName, and projectName is set
\* only if projectPath is.
C12_OnePerSubdirectory ==
    pop = "discoverWorkspaces" =>
        /\ Len(pout.workspaces) = Len(Subdirectories(pin))
        /\ \A i \in 1..Len(pout.workspaces) :
              /\ pout.workspaces[i].workspaceId = Subdirectories(pin)[i].name
              /\ pout.workspaces[i].hasStateDb = Subdirectories(pin)[i].hasStateDb
              /\ Subdirectories(pin)[i].descriptor \in BadDescriptors =>
                    /\ pout.workspaces[i].projectPath = JUndef
                    /\ pout.workspaces[i].projectName = JUndef
              /\ pout.workspaces[i].projectName # JUndef => pout.workspaces[i].projectPath # JUndef

\* a workspace with an undecodable URI was emitted in front of a sibling
C12_Witness ==
    /\ pop = "discoverWorkspaces"
    /\ Len(pin) = 1
    /\ Len(pin[1].entries) = 2
    /\ pin[1].entries[1].descriptor = Descriptor("json", JObj(<<KV("folder", JStr(S_uriBad))>>))
    /\ Len(pout.workspaces) = 2
    /\ pout.workspaces[1].projectPath = JUndef

\* C13: a listing error stays in its scope: a workspace whose transcripts
\* folder cannot be listed is emitted without session files and so are its
\* siblings; a root that cannot be listed contributes nothing while the
\* other roots' workspaces are emitted; discoverWorkspaces never raises.
C13_ListingErrorContained ==
    pop = "discoverWorkspaces" =>
        /\ ~pout.raised
        /\ [i \in 1..Len(pout.workspaces) |-> pout.workspaces[i].workspaceId]
             = [i \in 1..Len(Subdirectories(pin)) |-> Subdirectories(pin)[i].name]
        /\ \A i \in 1..Len(pout.workspaces) :
              Subdirectories(pin)[i].hasChats /\ ~Subdirectories(pin)[i].chats.listable
                 => pout.workspaces[i].chatSessionFiles = <<>>

\* a root that cannot be listed came first, and in the next root a workspace
\* whose transcripts folder cannot be listed came in front of a sibling with
\* session files
C13_Witness ==
    /\ pop = "discoverWorkspaces"
    /\ Len(pin) = 2
    /\ ~pin[1].listable
    /\ pin[1].entries # <<>>
    /\ Len(pout.workspaces) = 2
    /\ pout.workspaces[1].workspaceId = <<"w", "b">>
    /\ pout.workspaces[1].chatSessionFiles = <<>>
    /\ pout.workspaces[2].chatSessionFiles = <<FileName(1)>>


\* C14: no message of a database-sourced session (source sqlite) carries
\* rawData.
C14_NoRawDataFromDatabase ==
    \A i \in 1..Len(sessions) :
        sessions[i].source = "sqlite" =>
            \A k \in 1..Len(sessions[i].messages) : sessions[i].messages[k].rawData = JUndef


(***************************************************************************)
(* The session builders applied to session records.                        *)
(***************************************************************************)
S_sid == <<"s", "i", "d">>
S_N == <<"N">>

\* a string of n characters
LongStr(n) == [i \in 1..n |-> "x"]

\* the title fields a record can hold
TitleParts ==
    { <<>>,
      <<KV("title", JStr(S_A))>>,
      <<KV("title", EmptyStr), KV("name", JStr(S_N))>>,
      <<KV("sessionTitle", JStr(LongStr(TitleMax + 1)))>>,
      <<KV("customTitle", JStr(S_N))>>,
      <<KV("title", JNum(5))>> }

\* the identifier fields a record can hold
IdParts ==
    { <<>>,
      <<KV("sessionId", JStr(S_sid))>>,
      <<KV("sessionId", EmptyStr)>>,
      <<KV("id", JStr(S_sid))>> }

\* an element with a known role and no content
RoleOnly == JObj(<<KV("role", JStr(S_user)), KV("content", EmptyStr)>>)

\* an element whose request and response are set and hold no text
EmptyExchange ==
    JObj(<<KV("request", JObj(<<KV("text", EmptyStr)>>)), KV("response", JArr(<<EmptyStr>>))>>)

\* the message lists a record can hold
BuildMessages ==
    { <<UserRec(LongStr(TitleMax - 1))>>,
      <<UserRec(LongStr(TitleMax))>>,
      <<UserRec(LongStr(TitleMax + 1))>>,
      <<AssistantRec(S_b), UserRec(LongStr(TitleMax + 1)), UserRec(S_hello)>>,
      <<AssistantRec(S_b)>>,
      <<JObj(<<KV("request", JObj(<<KV("text", JNum(5))>>))>>)>>,
      <<RoleOnly, UserRec(S_hello)>>,
      <<EmptyExchange, AssistantRec(S_b)>> }

BuildDocs ==
    {JObj(t \o i \o <<KV("messages", JArr(m))>>) :
        t \in TitleParts, i \in IdParts, m \in BuildMessages}

\* names of transcript files
BuildFileNames == {FileName(1), <<"a", ".", "b">> \o S_json, S_json}

\* fallback identifiers of processDbEntry
BuildFallbackIds == {S_db \o Digits(0), S_zzz}

BuildWorkspace == WorkspaceInfo(<<"w", "1">>, JUndef, JUndef, <<>>, TRUE)

\* parseSessionFromFile(filePath, workspace)
ApplyParseSessionFromFile ==
    /\ pc = "parse"
    /\ pop = "none"
    /\ \E d \in BuildDocs, n \in BuildFileNames :
         /\ pin' = [doc |-> d, name |-> n]
         /\ \E r \in {parseSessionFromFile([name |-> n, kind |-> "json", data |-> d, mtime |-> 1],
                                           BuildWorkspace)} :
              pout' = [raised |-> FALSE, isNull |-> r.isNull, val |-> JUndef, msgs |-> <<>>,
                       session |-> r.session]
    /\ pop' = "parseSessionFromFile"
    /\ UNCHANGED <<pc, aggVars, searchVars>>

\* createSessionFromData(data, messages, workspace, sessionId), as
\* processDbEntry calls it: with the messages of data, at least one
ApplyCreateSessionFromData ==
    /\ pc = "parse"
    /\ pop = "none"
    /\ \E d \in BuildDocs, n \in BuildFallbackIds :
         \E pm \in {parseMessages(d)} :
            /\ ~pm.raised
            /\ Len(pm.msgs) > 0
            /\ pin' = [doc |-> d, name |-> n]
            /\ \E r \in {createSessionFromData(d, pm.msgs, BuildWorkspace, n, 1)} :
                 pout' = [raised |-> r.raised, isNull |-> FALSE, val |-> JUndef, msgs |-> <<>>,
                          session |-> r.session]
    /\ pop' = "createSessionFromData"
    /\ UNCHANGED <<pc, aggVars, searchVars>>

\* the creation-time, model and mode fields a record can hold
CreatedParts ==
    { <<>>, <<KV("createdAt", JNum(1))>>, <<KV("created", JNum(2))>>,
      <<KV("timestamp", JNum(3))>>, <<KV("creationDate", JNum(4))>> }

ModelParts ==
    { <<>>, <<KV("model", JStr(S_a))>>, <<KV("languageModel", JStr(S_b))>>,
      <<KV("modelId", JStr(S_Ab))>> }

ModeParts ==
    { <<>>, <<KV("agentMode", JStr(S_a))>>, <<KV("mode", JStr(S_b))>>,
      <<KV("agent", JStr(S_Ab))>> }

MetaDocs ==
    {JObj(t \o c \o m \o a \o <<KV("messages", JArr(<<UserRec(S_hello)>>))>>) :
        t \in TitleParts, c \in CreatedParts, m \in ModelParts, a \in ModeParts}

\* the same record and the same messages given to both builders: the file
\* S_sid.json read by parseSessionFromFile, and createSessionFromData with
\* the fallback identifier S_sid
ApplyBothBuilders ==
    /\ pc = "parse"
    /\ pop = "none"
    /\ \E d \in MetaDocs :
         \E pm \in {parseMessages(d)} :
            /\ pin' = [doc |-> d, name |-> S_sid]
            /\ \E f \in {parseSessionFromFile([name |-> S_sid \o S_json, kind |-> "json",
                                                data |-> d, mtime |-> 1], BuildWorkspace)},
                  r \in {createSessionFromData(d, pm.msgs, BuildWorkspace, S_sid, 1)} :
                 pout' = [raised |-> r.raised, isNull |-> f.isNull, val |-> JUndef,
                          msgs |-> pm.msgs, session |-> f.session, fromData |-> r.session]
    /\ pop' = "bothBuilders"
    /\ UNCHANGED <<pc, aggVars, searchVars>>

NextBuild == ApplyParseSessionFromFile \/ ApplyCreateSessionFromData \/ ApplyBothBuilders

SpecBuild == InitParse /\ [][NextBuild]_vars

\* a session builder has returned a session
Built == pop \in {"parseSessionFromFile", "createSessionFromData"} /\ ~pout.raised /\ ~pout.isNull

\* the explicit title of the record, the empty string when it has none
ExplicitTitle(doc) == FirstSet(doc, <<"title", "name", "sessionTitle">>)

\* ms holds a message with role user
HasUser(ms) == \E k \in 1..Len(ms) : ms[k].role = "user"

\* the content of the first message with role user
FirstUserContent(ms) ==
    ms[CHOOSE k \in 1..Len(ms) :
          ms[k].role = "user" /\ \A j \in 1..(k - 1) : ms[j].role # "user"].content.s

C16_SessionIdentity ==
    Built =>
        /\ pop = "parseSessionFromFile" /\ pin.name # S_json =>
              /\ pout.session.sessionId.t = "string"
              /\ pout.session.sessionId.s \o S_json = pin.name
        /\ pop = "createSessionFromData" =>
              pout.session.sessionId =
                  IF Truthy(Get(pin.doc, "sessionId")) THEN Get(pin.doc, "sessionId")
                  ELSE JStr(pin.name)

\* a database record that names its session has been built
C16_Witness ==
    /\ Built
    /\ pop = "createSessionFromData"
    /\ pin.name = S_zzz
    /\ pout.session.sessionId = JStr(S_sid)


(***************************************************************************)
(* ChatSessionTreeProvider.getChildren at the root of the tree.            *)
(***************************************************************************)
MaxViewSessions == 3
DefaultMaxSessions == 100

\* list.slice(0, n)
Slice(list, n) ==
    IF n >= 0 THEN SubSeq(list, 1, IF n < Len(list) THEN n ELSE Len(list))
    ELSE SubSeq(list, 1, IF Len(list) + n > 0 THEN Len(list) + n ELSE 0)

\* lines 131-135: the Map after one more session; groups is the Map in
\* insertion order, each entry [workspaceName, sessions]
AddToGroup(groups, session) ==
    IF \E g \in 1..Len(groups) : groups[g].workspaceName = session.workspaceName
    THEN [g \in 1..Len(groups) |->
            IF groups[g].workspaceName = session.workspaceName
            THEN [groups[g] EXCEPT !.sessions = Append(@, session)]
            ELSE groups[g]]
    ELSE Append(groups, [workspaceName |-> session.workspaceName, sessions |-> <<session>>])

\* the loop of line 130
RECURSIVE GroupLoop(_, _)
GroupLoop(list, groups) ==
    IF list = <<>> THEN groups
    ELSE GroupLoop(Tail(list), AddToGroup(groups, Head(list)))

\* Math.max(...sessions.map(s => s.modifiedAt || 0)) of a non-empty list
Latest(list) ==
    CHOOSE m \in {list[i].modifiedAt : i \in 1..Len(list)} :
        \A i \in 1..Len(list) : list[i].modifiedAt <= m

\* the comparator of lines 140-144
CompareGroups(a, b) == Latest(b.sessions) - Latest(a.sessions)

RECURSIVE InsertGroup(_, _)
InsertGroup(sorted, x) ==
    IF sorted = <<>> THEN <<x>>
    ELSE IF CompareGroups(x, Head(sorted)) < 0 THEN <<x>> \o sorted
    ELSE <<Head(sorted)>> \o InsertGroup(Tail(sorted), x)

\* lines 139-144: Array.prototype.sort with CompareGroups
RECURSIVE SortGroups(_)
SortGroups(groups) ==
    IF groups = <<>> THEN <<>>
    ELSE InsertGroup(SortGroups(SubSeq(groups, 1, Len(groups) - 1)), groups[Len(groups)])

\* getChildren(undefined): the items at the root, workspace items
\* [workspaceName, sessions] or session items [session]
getChildren(list, groupByWorkspace, maxSessions) ==
    IF Len(list) = 0 THEN <<>>
    ELSE IF groupByWorkspace THEN SortGroups(GroupLoop(Slice(list, maxSessions), <<>>))
    ELSE [i \in 1..Len(Slice(list, maxSessions)) |-> [session |-> Slice(list, maxSessions)[i]]]

S_app == <<"a", "p", "p">>

\* two workspaces of projects with one folder name, and one without a project
ViewWorkspaces ==
    { WorkspaceInfo(<<"w", "1">>, JStr(<<"/", "p", "/">> \o S_app), JStr(S_app), <<>>, FALSE),
      WorkspaceInfo(<<"w", "2">>, JStr(<<"/", "q", "/">> \o S_app), JStr(S_app), <<>>, FALSE),
      WorkspaceInfo(<<"w", "3">>, JUndef, JUndef, <<>>, FALSE) }

\* the session of the transcript file number i of a workspace
ViewSession(i, w, t) ==
    parseSessionFromFile([name |-> FileName(i), kind |-> "json",
                          data |-> WithMessages(<<UserRec(S_a)>>), mtime |-> t], w).session

\* lists getAllSessions can return: distinct ids, newest first
ViewLists ==
    UNION { { [i \in 1..n |-> ViewSession(i, ws[i], ts[i])] :
                ws \in [1..n -> ViewWorkspaces],
                ts \in {f \in [1..n -> 1..MaxTime] : \A i \in 1..(n - 1) : f[i] >= f[i + 1]} } :
            n \in 0..MaxViewSessions }

\* values of the maxSessionsInView setting
MaxSessionsSettings == {1, 2, DefaultMaxSessions}

\* getChildren()
ApplyGetChildren ==
    /\ pc = "parse"
    /\ pop = "none"
    /\ \E l \in ViewLists, g \in BOOLEAN, m \in MaxSessionsSettings :
         /\ pin' = [sessions |-> l, groupByWorkspace |-> g, maxSessions |-> m]
         /\ pout' = [raised |-> FALSE, isNull |-> FALSE, val |-> JUndef, msgs |-> <<>>,
                     items |-> getChildren(l, g, m)]
    /\ pop' = "getChildren"
    /\ UNCHANGED <<pc, aggVars, searchVars>>


(***************************************************************************)
(* The export commands and the preview.  A command is given what the user  *)
(* answers: formatPick and detailPick are the picks of getExportOptions    *)
(* ("none" for a dismissed pick), dir whether an output directory was      *)
(* entered, confirm the answer to the question of exportAll, k the index   *)
(* of the session chosen (exportSession, openSession; 0 for none), the     *)
(* number of sessions exported before the export was cancelled (exportAll) *)
(* or the count entered (exportRecent; 0 for none).  The outcome is the    *)
(* list of the calls of formatSession: [session, format, detailed].        *)
(***************************************************************************)
\* config.get<boolean>('includeDetailedInfo', false)
IncludeDetailedInfo(setting) == IF setting = "unset" THEN FALSE ELSE setting = "true"

NoOptions == [defined |-> FALSE, format |-> "none", detailed |-> FALSE]

getExportOptions(formatPick, detailPick) ==
    IF formatPick = "none" THEN NoOptions
    ELSE IF detailPick = "none" THEN NoOptions
    ELSE [defined |-> TRUE, format |-> formatPick, detailed |-> detailPick = "detailed"]

FormatCall(i, options) == [session |-> i, format |-> options.format, detailed |-> options.detailed]

\* lines 184-200: options is what getExportOptions returned
ExportOne(u, options) ==
    IF ~options.defined \/ ~u.dir THEN <<>> ELSE <<FormatCall(u.k, options)>>

\* exportSessionCommand: no session when none was passed and none picked
exportSessionCommand(u) ==
    IF u.k = 0 THEN <<>>
    ELSE ExportOne(u, getExportOptions(u.formatPick, u.detailPick))

\* lines 239-280 and 325-346: the first count sessions are formatted
ExportMany(u, count, options) ==
    IF ~options.defined \/ ~u.dir THEN <<>>
    ELSE [i \in 1..count |-> FormatCall(i, options)]

exportAllCommand(u) ==
    IF u.n = 0 \/ ~u.confirm THEN <<>>
    ELSE ExportMany(u, u.k, getExportOptions(u.formatPick, u.detailPick))

exportRecentCommand(u) ==
    IF u.n = 0 \/ u.k = 0 THEN <<>>
    ELSE ExportMany(u, u.k, getExportOptions(u.formatPick, u.detailPick))

\* lines 422-426
openSessionCommand(u) ==
    IF u.k = 0 THEN <<>>
    ELSE <<[session |-> u.k, format |-> "html", detailed |-> IncludeDetailedInfo(u.setting)]>>

Settings == {"unset", "false", "true"}
FormatPicks == {"none", "markdown", "json", "html"}
DetailPicks == {"none", "standard", "detailed"}

\* what a command is given when the provider holds n sessions
CommandInputs ==
    [setting : Settings, n : 0..MaxViewSessions, k : 0..MaxViewSessions,
     formatPick : FormatPicks, detailPick : DetailPicks, dir : BOOLEAN, confirm : BOOLEAN]

Called(calls) == [raised |-> FALSE, isNull |-> FALSE, val |-> JUndef, msgs |-> <<>>, calls |-> calls]

ApplyExportSession ==
    /\ pc = "parse"
    /\ pop = "none"
    /\ \E u \in CommandInputs :
         /\ u.k <= u.n
         /\ u.confirm
         /\ pin' = u
         /\ pout' = Called(exportSessionCommand(u))
    /\ pop' = "exportSession"
    /\ UNCHANGED <<pc, aggVars, searchVars>>

ApplyExportAll ==
    /\ pc = "parse"
    /\ pop = "none"
    /\ \E u \in CommandInputs :
         /\ u.k <= u.n
         /\ pin' = u
         /\ pout' = Called(exportAllCommand(u))
    /\ pop' = "exportAll"
    /\ UNCHANGED <<pc, aggVars, searchVars>>

ApplyExportRecent ==
    /\ pc = "parse"
    /\ pop = "none"
    /\ \E u \in CommandInputs :
         /\ u.k <= u.n
         /\ u.confirm
         /\ pin' = u
         /\ pout' = Called(exportRecentCommand(u))
    /\ pop' = "exportRecent"
    /\ UNCHANGED <<pc, aggVars, searchVars>>

ApplyOpenSession ==
    /\ pc = "parse"
    /\ pop = "none"
    /\ \E u \in CommandInputs :
         /\ u.k <= u.n
         /\ u.confirm /\ u.dir /\ u.formatPick = "none" /\ u.detailPick = "none"
         /\ pin' = u
         /\ pout' = Called(openSessionCommand(u))
    /\ pop' = "openSession"
    /\ UNCHANGED <<pc, aggVars, searchVars>>

NextView ==
    \/ ApplyGetChildren
    \/ ApplyExportSession
    \/ ApplyExportAll
    \/ ApplyExportRecent
    \/ ApplyOpenSession

SpecView == InitParse /\ [][NextView]_vars

\* C17: in the grouped view every workspace group holds sessions of one
\* workspaceId only, and each of the first maxSessionsInView sessions is in
\* exactly one group.
C17_GroupsAreWorkspaces ==
    pop = "getChildren" /\ pin.groupByWorkspace =>
        /\ \A g \in 1..Len(pout.items) :
              \A i, j \in 1..Len(pout.items[g].sessions) :
                  pout.items[g].sessions[i].workspaceId = pout.items[g].sessions[j].workspaceId
        /\ \A i \in 1..Len(pin.sessions) :
              i <= pin.maxSessions =>
                 \E g \in 1..Len(pout.items) :
                    /\ \E k \in 1..Len(pout.items[g].sessions) :
                          pout.items[g].sessions[k] = pin.sessions[i]
                    /\ \A h \in 1..Len(pout.items) :
                          (\E k \in 1..Len(pout.items[h].sessions) :
                              pout.items[h].sessions[k] = pin.sessions[i]) => h = g

\* C18: for exportSession, exportAll and exportRecent the detailed flag
\* passed to formatSession equals the includeDetailedInfo setting (false
\* when unset).
C18_DetailedFollowsSetting ==
    pop \in {"exportSession", "exportAll", "exportRecent"} =>
        \A c \in 1..Len(pout.calls) : pout.calls[c].detailed = IncludeDetailedInfo(pin.setting)

\* ---------------------------------------------------------------------------
\* the messages of one container taken alone
YieldOf(data, k) ==
    IF Truthy(Get(data, messageContainers[k])) /\ Get(data, messageContainers[k]).t = "array"
    THEN ParseItems(Get(data, messageContainers[k]).a)
    ELSE MsgsOk(<<>>)

\* container k yields a message and every earlier container is read without
\* an exception and yields none
FirstYielding(data, k) ==
    /\ Len(YieldOf(data, k).msgs) > 0
    /\ \A j \in 1..(k - 1) : ~YieldOf(data, j).raised /\ Len(YieldOf(data, j).msgs) = 0

\* C19: parseMessages returns the messages of exactly one container: the
\* names messages, history, exchanges, requests, turns, chatMessages are tried
\* in that order, a name that is absent, not a list or yields no message is
\* skipped, and the first container that yields a message supplies the whole
\* result; no later name is tried.
C19_OneContainer ==
    pop = "parseMessages" /\ pin.t = "object" =>
        /\ \A k \in 1..Len(messageContainers) :
              FirstYielding(pin, k) => ~pout.raised /\ pout.msgs = YieldOf(pin, k).msgs
        /\ ~pout.raised /\ (\A k \in 1..Len(messageContainers) : Len(YieldOf(pin, k).msgs) = 0)
              => pout.msgs = <<>>

\* an earlier container yields nothing, the next is no list, two later ones
\* both yield a message, and the result is the messages of the first of them
C19_Witness ==
    /\ pop = "parseMessages"
    /\ pin.t = "object"
    /\ Get(pin, "messages") = JArr(<<JNull>>)
    /\ Get(pin, "history") = JStr(S_a)
    /\ Len(YieldOf(pin, 4).msgs) > 0
    /\ Len(YieldOf(pin, 5).msgs) > 0
    /\ YieldOf(pin, 4).msgs # YieldOf(pin, 5).msgs
    /\ ~pout.raised
    /\ pout.msgs = YieldOf(pin, 4).msgs

(***************************************************************************)
(* The search command over the list getAllSessions has returned.           *)
(***************************************************************************)
RECURSIVE SearchLoop(_, _, _)

\* r: the results after the body of the loop for the session before rest
SearchNext(r, rest, q) ==
    IF r.raised THEN r ELSE SearchLoop(r.results, rest, q)

\* lines 453-469: the loop over the sessions
SearchLoop(found, list, q) ==
    IF list = <<>> THEN [raised |-> FALSE, results |-> found]
    ELSE SearchNext(SearchOne(found, Head(list), q), Tail(list), q)

searchSessions(list, q) == SearchLoop(<<>>, list, q)

\* extension.ts searchChatsCommand: nothing is searched when there is no
\* session or no query; si = 0 records an exception leaving the search
searchChatsCommand ==
    /\ pc = "done"
    /\ Len(sessions) > 0
    /\ \E q \in Queries \ {<<>>} :
         \E r \in {searchSessions(sessions, q)} :
            /\ query' = q
            /\ input' = sessions
            /\ results' = IF r.raised THEN <<>> ELSE r.results
            /\ si' = IF r.raised THEN 0 ELSE Len(sessions) + 1
    /\ UNCHANGED <<pc, aggVars, parseVars>>

NextChat == Next \/ searchChatsCommand

SpecChat == Init /\ [][NextChat]_vars

\* every message stands at the position its record was stamped with
InOrder(messages) ==
    \A k \in 1..Len(messages) : messages[k].timestamp = JNum(k)

\* a message taken from the response side of an element follows the user
\* message taken from the request side of that element
Paired(messages) ==
    \A k \in 1..Len(messages) :
        messages[k].role = "assistant" /\ messages[k].rawData = JUndef =>
            /\ k > 1
            /\ messages[k - 1].role = "user"
            /\ messages[k - 1].rawData = JUndef

\* every session held at some stage keeps the stamped order: the sessions
\* the database builder has produced, the aggregated and the sorted list,
\* and the sessions and matches of a search
StampedOrder ==
    /\ \A i \in 1..Len(sqliteSessions) :
          InOrder(sqliteSessions[i].messages) /\ Paired(sqliteSessions[i].messages)
    /\ \A i \in 1..Len(sessions) :
          InOrder(sessions[i].messages) /\ Paired(sessions[i].messages)
    /\ \A r \in 1..Len(results) :
          /\ \E i \in 1..Len(sessions) : sessions[i] = results[r].session
          /\ InOrder(results[r].session.messages)
          /\ \A i, j \in 1..Len(results[r].matches) :
                i < j => results[r].matches[i].timestamp.n < results[r].matches[j].timestamp.n

\* C20: conversation order is preserved through every stage.  The records
\* the sources hold are stamped with their position in the conversation, a
\* request/response element with two consecutive positions; at every stage
\* (the sessions the builders have produced, the aggregated list, the sorted
\* list, the sessions and the matches of a search) each message of a session
\* stands at the position it was stamped with, the assistant message of an
\* element directly after its user message, and the matches of a search
\* result are in increasing position; and no step changes the messages of a
\* session that is in the list.
C20_OrderPreserved ==
    /\ []StampedOrder
    /\ [][\A i \in 1..Len(sessions) : \A j \in 1..Len(sessions') :
             sessions[i].sessionId = sessions'[j].sessionId
                => sessions'[j].messages = sessions[i].messages]_vars

\* the final sort has reordered sessions of both sources, and a search over
\* them has found two messages of a session built from a request/response
\* element followed by a further record
C20_Witness ==
    /\ pc = "done"
    /\ sessions # firstOffer
    /\ \E i \in 1..Len(sessions) : sessions[i].source = "sqlite"
    /\ \E r \in 1..Len(results) :
          /\ results[r].session.source = "json"
          /\ Len(results[r].session.messages) = 3
          /\ results[r].session.messages[1].role = "user"
          /\ results[r].session.messages[2].role = "assistant"
          /\ Len(results[r].matches) = 2

\* C21: for an array, extractContent applies to each element the extraction
\* it applies to that value on its own and joins the non-empty results with
\* newlines: extractContent(a) is the newline-join of the non-empty
\* extractContent(a[i]).
C21_ArrayElementwise ==
    pop = "extractContent" /\ pin.t = "array" =>
        /\ ~pout.raised
        /\ pout.val = FilterJoin([i \in 1..Len(pin.a) |-> extractContent(pin.a[i]).val])

(***************************************************************************)
(* One row of the query result: lines 336-343 around processDbEntry.       *)
(***************************************************************************)
MaxRowElems == 3

S_k1 == <<"k", "1">>
S_k2 == <<"k", "2">>

\* elements of a list value, or values of the entries of a sessions mapping
RowElements ==
    { JNull, JNum(5),
      WithMessages(<<>>),
      WithMessages(<<UserRec(S_a)>>),
      JObj(<<KV("sessionId", JStr(S_sid)), KV("messages", JArr(<<AssistantRec(S_b)>>))>>),
      WithMessages(<<JObj(<<KV("request", JObj(<<KV("text", JNum(5))>>))>>)>>) }

RowMappingKeys == <<S_k1, S_k2>>

\* what JSON.parse(row.value) can give
RowData ==
    {JArr(l) : l \in UNION {[1..n -> RowElements] : n \in 0..MaxRowElems}}
    \cup {JObj(<<KV("sessions", JObj([i \in 1..Len(l) |-> KV(RowMappingKeys[i], l[i])]))>>) :
            l \in UNION {[1..n -> RowElements] : n \in 0..Len(RowMappingKeys)}}
    \cup {JObj(<<KV("sessions", JArr(<<WithMessages(<<UserRec(S_a)>>)>>))>>),
          JObj(<<KV("sessions", JStr(S_a)), KV("messages", JArr(<<UserRec(S_a)>>))>>)}
    \cup RowElements \cup {JStr(S_a), JBool(FALSE)}

\* lines 338-342 for a row whose value is valid JSON: the sessions pushed
\* before an exception stay in the list, the exception is swallowed
ApplyProcessDbEntry ==
    /\ pc = "parse"
    /\ pop = "none"
    /\ \E d \in RowData, t \in Clock :
         /\ pin' = [data |-> d, now |-> t]
         /\ \E r \in {processDbEntry(d, BuildWorkspace, <<>>, t)} :
              pout' = [raised |-> r.raised, isNull |-> FALSE, val |-> JUndef, msgs |-> <<>>,
                       sessions |-> r.sessions]
    /\ pop' = "processDbEntry"
    /\ UNCHANGED <<pc, aggVars, searchVars>>

NextRow == ApplyProcessDbEntry

SpecRow == InitParse /\ [][NextRow]_vars

\* the messages of one element or entry taken alone
MessagesOf(cand) ==
    IF TypeofObject(cand) /\ cand.t # "null" THEN parseMessages(cand).msgs ELSE <<>>

\* the element yields a message and nothing in it makes its own session fail
YieldsSession(cand) ==
    /\ Len(MessagesOf(cand)) > 0
    /\ \A k \in 1..Len(MessagesOf(cand)) : MessagesOf(cand)[k].content.t = "string"

\* C22: within one database row the elements are processed independently:
\* every element of a list (entry of a sessions mapping) that yields at least
\* one message becomes a session, whatever the other elements are; a null,
\* malformed or failing element does not keep later elements from becoming
\* sessions.
C22_ElementsIndependent ==
    pop = "processDbEntry" =>
        \A i \in 1..Len(Candidates(pin.data, pin.now)) :
            YieldsSession(Candidates(pin.data, pin.now)[i].cand) =>
                \E j \in 1..Len(pout.sessions) :
                    /\ pout.sessions[j].messages = MessagesOf(Candidates(pin.data, pin.now)[i].cand)
                    /\ pout.sessions[j].sessionId
                         = OrChain(<<Get(Candidates(pin.data, pin.now)[i].cand, "sessionId"),
                                     JStr(Candidates(pin.data, pin.now)[i].id)>>)

\* C23: for a database value that is an object whose sessions field is a
\* field-to-value mapping, every entry that yields at least one message
\* becomes one session whose sessionId is the field name of that entry.
C23_MappingKeyIsId ==
    pop = "processDbEntry" /\ pin.data.t = "object" /\ Get(pin.data, "sessions").t = "object" =>
        \A i \in 1..Len(Get(pin.data, "sessions").o) :
            YieldsSession(Get(pin.data, "sessions").o[i].v) =>
                \E j \in 1..Len(pout.sessions) :
                    /\ pout.sessions[j].messages = MessagesOf(Get(pin.data, "sessions").o[i].v)
                    /\ pout.sessions[j].sessionId = JStr(Get(pin.data, "sessions").o[i].k)

\* C24: a session with no explicit title and no user message is titled by a
\* placeholder made from its own sessionId: "Chat ", the first 8 characters
\* of the session's sessionId, and "...", for sessions built from files and
\* from database records alike.
C24_PlaceholderFromOwnId ==
    Built /\ ~Truthy(FirstSet(pin.doc, <<"title", "name", "sessionTitle", "customTitle">>))
          /\ ~HasUser(pout.session.messages) =>
        pout.session.title
            = JStr(S_Chat \o Prefix(pout.session.sessionId.s, IdPrefixLen) \o S_dots)

\* C25: searchSessions never raises on a session list getAllSessions has
\* returned, whatever the query: every session the pipeline produces has a
\* string title and every message has string content, whatever JSON types
\* the title and content fields of the source records hold.
C25_SearchNeverRaises ==
    /\ \A i \in 1..Len(sessions) :
          /\ sessions[i].title.t = "string"
          /\ \A k \in 1..Len(sessions[i].messages) : sessions[i].messages[k].content.t = "string"
    /\ si # 0

\* the identifier was generated by processDbEntry: "db_" and an index or a
\* clock reading
Generated(session) ==
    session.sessionId.t = "string" /\ Prefix(session.sessionId.s, Len(S_db)) = S_db

\* C26: the fallback identifiers generated for database sessions are unique
\* within one aggregation pass, so deduplication never drops a database
\* conversation without an explicit sessionId: when the sessions of a
\* database are merged, each of them with a generated identifier is appended
\* to the list of getAllSessions.
C26_GeneratedIdsKept ==
    [][pc = "merge" /\ pc' = "loop" =>
          SelectSeq(SubSeq(sessions', Len(sessions) + 1, Len(sessions')), Generated)
            = SelectSeq(sqliteSessions, Generated)]_vars

\* C27: the file path and the database path of the session builder resolve
\* metadata identically: for the same raw record and the same message list
\* parseSessionFromFile and createSessionFromData give the same title,
\* createdAt, model and agentMode.
C27_BuildersAgree ==
    pop = "bothBuilders" /\ ~pout.raised /\ ~pout.isNull =>
        /\ pout.session.messages = pout.fromData.messages
        /\ pout.session.title = pout.fromData.title
        /\ pout.session.createdAt = pout.fromData.createdAt
        /\ pout.session.model = pout.fromData.model
        /\ pout.session.agentMode = pout.fromData.agentMode

(***************************************************************************)
(* formatters.ts generateFilename and the export loop of exportAllCommand. *)
(***************************************************************************)
MaxExportSessions == 2

\* clock readings per day: the readings of the model are scaled
DayLength == 2

SanitizeMax == 50
ShortIdLen == 8

SpecialChars == {"<", ">", ":", "\"", "/", "\\", "|", "?", "*"}
WhiteChars == {" ", "\t", "\n"}

S_untitled == <<"u", "n", "t", "i", "t", "l", "e", "d">>
S_unknown == <<"u", "n", "k", "n", "o", "w", "n">>
S_prefix == <<"c", "o", "p", "i", "l", "o", "t", "-", "c", "h", "a", "t", "-">>
S_md == <<"m", "d">>
S_html == <<"h", "t", "m", "l">>

\* lines 37-49: the day the reading falls in, written as its number for the
\* ISO date of that day
formatDateForFilename(ts) ==
    IF ts = 0 THEN S_unknown ELSE <<"d">> \o Digits(ts \div DayLength)

\* lines 58-61: a special or white-space character becomes "_" ...
Underscored(name) ==
    [i \in 1..Len(name) |-> IF name[i] \in SpecialChars \cup WhiteChars THEN "_" ELSE name[i]]

\* ... and a run of "_" becomes one "_"
RECURSIVE Collapse(_)
Collapse(s) ==
    IF Len(s) < 2 THEN s
    ELSE IF s[1] = "_" /\ s[2] = "_" THEN Collapse(Tail(s))
    ELSE <<s[1]>> \o Collapse(Tail(s))

\* replace(/^_+/, '')
RECURSIVE StripLeading(_)
StripLeading(s) ==
    IF s # <<>> /\ s[1] = "_" THEN StripLeading(Tail(s)) ELSE s

\* replace(/_+$/, '')
RECURSIVE StripTrailing(_)
StripTrailing(s) ==
    IF s # <<>> /\ s[Len(s)] = "_" THEN StripTrailing(SubSeq(s, 1, Len(s) - 1)) ELSE s

\* lines 65-69
Shortened(s) ==
    IF Len(s) > SanitizeMax THEN StripTrailing(SubSeq(s, 1, SanitizeMax)) ELSE s

OrUntitled(s) == IF s = <<>> THEN S_untitled ELSE s

\* sanitizeFilename(name): trim() finds no white space left; a name that is
\* no string has no replace method
sanitizeFilename(name) ==
    IF name.t # "string" THEN StrRaise
    ELSE StrOk(OrUntitled(Shortened(StripLeading(StripTrailing(Collapse(Underscored(name.s)))))))

\* line 79
Extension(format) ==
    IF format = "markdown" THEN S_md ELSE IF format = "json" THEN <<"j", "s", "o", "n">> ELSE S_html

\* line 81: title is the outcome of sanitizeFilename(session.title)
FilenameOf(session, format, title) ==
    IF title.raised \/ session.sessionId.t # "string" THEN StrRaise
    ELSE StrOk(S_prefix \o formatDateForFilename(session.modifiedAt) \o <<"-">> \o title.s
               \o <<"-">> \o Prefix(session.sessionId.s, ShortIdLen) \o <<".">> \o Extension(format))

generateFilename(session, format) ==
    FilenameOf(session, format, sanitizeFilename(session.title))

\* fs.writeFileSync(filepath, content): the file of that name now holds the
\* export of session k
WriteFile(files, name, k) ==
    IF \E i \in 1..Len(files) : files[i].name = name
    THEN [i \in 1..Len(files) |-> IF files[i].name = name THEN [name |-> name, session |-> k]
                                  ELSE files[i]]
    ELSE Append(files, [name |-> name, session |-> k])

\* lines 268-278 for session k: f is the outcome of generateFilename
Exported(out, k, f) ==
    IF f.raised THEN [out EXCEPT !.failed = @ + 1]
    ELSE [out EXCEPT !.files = WriteFile(@, f.s, k), !.exported = @ + 1]

\* lines 259-279: the loop over the sessions, from session k on
RECURSIVE ExportLoop(_, _, _, _)
ExportLoop(out, list, k, format) ==
    IF k > Len(list) THEN out
    ELSE ExportLoop(Exported(out, k, generateFilename(list[k], format)), list, k + 1, format)

S_session == <<"s", "e", "s", "s", "i", "o", "n", "-">>

\* names of transcript files, two of them alike in their first 8 characters
ExportFileNames == <<S_session \o <<"1">> \o S_json, S_session \o <<"2">> \o S_json, FileName(1)>>

ExportTitles == {JStr(<<"A", " ", "b">>), JStr(<<"A", "/", "b">>), JStr(S_b), JNum(5)}

\* the session of the transcript file number i, titled and last written at t
ExportSession(i, title, t) ==
    parseSessionFromFile([name |-> ExportFileNames[i], kind |-> "json",
                          data |-> JObj(<<KV("title", title),
                                          KV("messages", JArr(<<UserRec(S_a)>>))>>),
                          mtime |-> t], BuildWorkspace).session

\* lists getAllSessions can return: distinct ids, newest first
ExportLists ==
    UNION { { [k \in 1..n |-> ExportSession(is[k], ts[k], ms[k])] :
                is \in {f \in [1..n -> 1..Len(ExportFileNames)] :
                           \A i, j \in 1..n : i # j => f[i] # f[j]},
                ts \in [1..n -> ExportTitles],
                ms \in {f \in [1..n -> 1..(2 * DayLength)] :
                           \A i \in 1..(n - 1) : f[i] >= f[i + 1]} } :
            n \in 1..MaxExportSessions }

\* exportAllCommand once the user has confirmed, chosen a format and a
\* directory
ApplyBulkExport ==
    /\ pc = "parse"
    /\ pop = "none"
    /\ \E l \in ExportLists, f \in {"markdown", "json", "html"} :
         /\ pin' = [sessions |-> l, format |-> f]
         /\ \E r \in {ExportLoop([files |-> <<>>, exported |-> 0, failed |-> 0], l, 1, f)} :
              pout' = [raised |-> FALSE, isNull |-> FALSE, val |-> JUndef, msgs |-> <<>>,
                       files |-> r.files, exported |-> r.exported, failed |-> r.failed]
    /\ pop' = "bulkExport"
    /\ UNCHANGED <<pc, aggVars, searchVars>>

NextExport == ApplyBulkExport

SpecExport == InitParse /\ [][NextExport]_vars

\* C28: bulk export writes one file per session: the sessions of one
\* getAllSessions result get distinct file names for a given format, so the
\* number of files written is the exported count that is reported and each
\* exported session still has the file that was written for it.
C28_OneFilePerSession ==
    pop = "bulkExport" =>
        /\ Len(pout.files) = pout.exported
        /\ pout.exported + pout.failed = Len(pin.sessions)
        /\ \A i \in 1..Len(pin.sessions) :
              pin.sessions[i].title.t = "string"
                 => \E k \in 1..Len(pout.files) : pout.files[k].session = i

\* the record is one container holding one element
OneElement(data) ==
    /\ data.t = "object"
    /\ Len(data.o) = 1
    /\ data.o[1].k \in {messageContainers[i] : i \in 1..Len(messageContainers)}
    /\ data.o[1].v.t = "array"
    /\ Len(data.o[1].v.a) = 1

\* the element names a recognised role and holds text in a content field
RoleAndText(item) ==
    /\ item.t = "object"
    /\ RoleNamed(FirstSet(item, RoleKeys)) # "unknown"
    /\ FirstSet(item, ContentKeys).t = "string"
    /\ Truthy(FirstSet(item, ContentKeys))

\* C29: a container element that carries a recognised role (role, type or
\* kind naming user, assistant or system) and text in one of the fields
\* content, text, value, message yields exactly one message, with the role
\* of the element; {role:"assistant", message:"hi"} yields one assistant
\* message.
C29_ElementKeepsRole ==
    pop = "parseMessages" /\ OneElement(pin) /\ RoleAndText(pin.o[1].v.a[1]) =>
        /\ ~pout.raised
        /\ Len(pout.msgs) = 1
        /\ pout.msgs[1].role = RoleNamed(FirstSet(pin.o[1].v.a[1], RoleKeys))

\* C30: every message of every session built by parseSessionFromFile or for
\* a database record has non-empty content (content that is set): an element
\* with a known role and no extractable content, and a request or response
\* with empty content, produce no message.
C30_NoEmptyContent ==
    Built =>
        /\ \A k \in 1..Len(pout.session.messages) : Truthy(pout.session.messages[k].content)
        /\ Get(pin.doc, "messages") = JArr(<<RoleOnly, UserRec(S_hello)>>) =>
              /\ Len(pout.session.messages) = 1
              /\ pout.session.messages[1].content = JStr(S_hello)
        /\ Get(pin.doc, "messages") = JArr(<<EmptyExchange, AssistantRec(S_b)>>) =>
              /\ Len(pout.session.messages) = 1
              /\ pout.session.messages[1].role = "assistant"
              /\ pout.session.messages[1].content = JStr(S_b)

\* a database record whose first element names a role and holds no content
\* was built into a session of one message
C30_Witness ==
    /\ pop = "createSessionFromData"
    /\ ~pout.raised
    /\ Get(pin.doc, "messages") = JArr(<<RoleOnly, UserRec(S_hello)>>)
    /\ Len(pout.session.messages) = 1
    /\ pout.session.title = JStr(S_hello)

====
